---- MODULE Spec2Model ----
(***************************************************************************)
(* A model of the Anki package ingestion pipeline of anki-parser:          *)
(* container format detection, record-store extraction, deck parsing under *)
(* the modern and the legacy layout, placeholder decks for orphaned cards, *)
(* media processing and the five progress phases.                          *)
(*                                                                         *)
(* Text (deck names, filenames, JSON keys) is modelled as the sequence of  *)
(* its UTF-8 bytes, e.g. "A::B" is <<65, 58, 58, 66>>; the inputs hold     *)
(* ASCII text and bytes >= 128 that never form a well-formed multi-byte    *)
(* sequence.  Archive payloads are byte sequences as well.                 *)
(***************************************************************************)
EXTENDS Integers, Sequences, FiniteSets, TLC

VARIABLES
    pc,             \* position of the run inside parse_anki_file / of a component call
    signals,        \* phases passed to progress_callback.on_progress, in order
    result,         \* "none" while running, "ok", or the AnkiError variant returned
    archive,        \* the container: its entries and their payloads
    format,         \* AnkiArchive.format once opened
    db_data,        \* bytes returned by extract_database
    database,       \* tables of the record store
    decks,          \* Vec<AnkiDeck> built by parse_decks and the placeholder loop
    parsed_count,   \* number of decks parse_decks returned
    cards_by_deck,  \* HashMap<i64, Vec<AnkiCard>> built by parse_cards
    collection,     \* the AnkiCollection returned
    mapping,        \* HashMap index -> filename of process_media
    remaining,      \* index keys process_media has not iterated yet
    current,        \* process_media's counter
    store_data,     \* AnkiMediaStore.data
    filenames_list, \* AnkiMediaStore.filenames_list
    progress,       \* calls of process_media's progress_callback
    log,            \* filenames process_media logged a warning for
    temp_file,      \* the temporary file of open_from_bytes: "absent", "present", "removed"
    locks,          \* the two RwLocks of AnkiMediaStore: writer and readers of each
    threads,        \* the store operation each host thread runs, and its position
    input,          \* argument of a function called on its own
    output,         \* what that call returned
    temp_dir,       \* the temporary directory: the bytes at each path
    readers         \* the AnkiDatabase values alive: their _temp_path and bytes

vars == <<pc, signals, result, archive, format, db_data, database,
          decks, parsed_count, cards_by_deck, collection, mapping, remaining,
          current, store_data, filenames_list, progress, log, temp_file, locks,
          threads, input, output, temp_dir, readers>>

None == [some |-> FALSE]

Some(v) == [some |-> TRUE, v |-> v]

Ok(v) == [ok |-> TRUE, v |-> v]

Err(e) == [ok |-> FALSE, e |-> e]

EmptyMap == [x \in {} |-> 0]

\* std::process::id() of the processes that open readers
ProcessIds == {1, 2}

MaxReaders == 2

\* temp_dir().join(format!("anki_import_{}.db", std::process::id()))
TempPath(pid) == pid

\* no temporary file written, no reader alive
NoFiles == [path \in {TempPath(p) : p \in ProcessIds} |-> None]

NoReader == [alive |-> FALSE, path |-> 0, data |-> <<>>]

NoReaders == [r \in 1..MaxReaders |-> NoReader]

\* Drop for AnkiDatabase: removes the temporary file of the reader
Drop(t) == IF t = "present" THEN "removed" ELSE t

\* the reader is a local of parse_anki_file: it is dropped when the run returns
AtReturn(next) ==
    temp_file' = IF next \in {"failed", "done"} THEN Drop(temp_file) ELSE temp_file

Elsewhere == UNCHANGED <<locks, threads, input, output, temp_dir, readers>>

(***************************************************************************)
(* Text helpers                                                            *)
(***************************************************************************)

\* "::" starts at position i of s (1-based)
SepAt(s, i) == i >= 1 /\ i + 1 <= Len(s) /\ s[i] = 58 /\ s[i + 1] = 58

\* str::contains("::")
ContainsSep(s) == \E i \in 1..Len(s) : SepAt(s, i)

\* str::matches("::").count(): non-overlapping matches, scanned left to right
RECURSIVE CountSepFrom(_, _)
CountSepFrom(s, i) ==
    IF i + 1 > Len(s) THEN 0
    ELSE IF SepAt(s, i) THEN 1 + CountSepFrom(s, i + 2)
    ELSE CountSepFrom(s, i + 1)

Depth(s) == CountSepFrom(s, 1)

\* str::rsplit("::").next(): the text after the right-most "::", or all of s
LastSegment(s) ==
    IF ContainsSep(s)
    THEN LET i == CHOOSE k \in 1..Len(s) :
                      SepAt(s, k) /\ \A m \in (k + 1)..Len(s) : ~SepAt(s, m)
         IN SubSeq(s, i + 2, Len(s))
    ELSE s

\* String::cmp: lexicographic on bytes
StrLess(x, y) ==
    \E k \in 1..(Len(y)) :
        /\ \A m \in 1..(k - 1) : m <= Len(x) /\ x[m] = y[m]
        /\ \/ k > Len(x)
           \/ k <= Len(x) /\ x[k] < y[k]

\* String::from_utf8 succeeds (the inputs hold no well-formed multi-byte sequence)
Utf8Valid(b) == \A i \in 1..Len(b) : b[i] < 128

\* i64 rendered by format!("{}")
RECURSIVE Digits(_)
Digits(n) == IF n < 10 THEN <<48 + n>> ELSE Digits(n \div 10) \o <<48 + (n % 10)>>

I64ToString(n) == IF n < 0 THEN <<45>> \o Digits(-n) ELSE Digits(n)

IsDigit(c) == c >= 48 /\ c <= 57

RECURSIVE DigitsValue(_)
DigitsValue(s) ==
    IF Len(s) = 0 THEN 0
    ELSE 10 * DigitsValue(SubSeq(s, 1, Len(s) - 1)) + (s[Len(s)] - 48)

\* str::parse::<i64>(): an optional sign and at least one digit
ParseI64(s) ==
    LET signed == Len(s) >= 1 /\ s[1] \in {43, 45}
        body == IF signed THEN Tail(s) ELSE s
    IN IF Len(body) >= 1 /\ \A i \in 1..Len(body) : IsDigit(body[i])
       THEN Some(IF signed /\ s[1] = 45 THEN 0 - DigitsValue(body) ELSE DigitsValue(body))
       ELSE None

(***************************************************************************)
(* models.rs: AnkiDeck                                                     *)
(***************************************************************************)

from_name(id, name) == [id |-> id, name |-> name, short_name |-> LastSegment(name)]

is_root(deck) == ~ContainsSep(deck.name)

\* str::split("::"): the parts between the non-overlapping matches, scanned left
\* to right from position i
RECURSIVE SplitFrom(_, _)
SplitFrom(s, i) ==
    LET at == {m \in i..Len(s) : SepAt(s, m)}
        first == CHOOSE m \in at : \A k \in at : m <= k
    IN IF at = {} THEN <<SubSeq(s, i, Len(s))>>
       ELSE <<SubSeq(s, i, first - 1)>> \o SplitFrom(s, first + 2)

\* [&str]::join("::")
RECURSIVE JoinSep(_)
JoinSep(parts) ==
    IF Len(parts) = 0 THEN <<>>
    ELSE IF Len(parts) = 1 THEN parts[1]
    ELSE parts[1] \o <<58, 58>> \o JoinSep(Tail(parts))

parent_path(deck) ==
    LET parts == SplitFrom(deck.name, 1)
    IN IF Len(parts) > 1 THEN Some(JoinSep(SubSeq(parts, 1, Len(parts) - 1))) ELSE None

(***************************************************************************)
(* database.rs: deck ordering                                              *)
(***************************************************************************)

deck_cmp_less_depth_only(a, b) == Depth(a.name) < Depth(b.name)

\* the comparator of sort_by: depth, then name
deck_cmp_less(a, b) ==
    \/ Depth(a.name) < Depth(b.name)
    \/ Depth(a.name) = Depth(b.name) /\ StrLess(a.name, b.name)

\* Vec::sort_by is stable: d goes before the first element that is greater
InsertDeck(sorted, d) ==
    LET later == {i \in 1..Len(sorted) : deck_cmp_less(d, sorted[i])}
        at == IF later = {} THEN Len(sorted) + 1
              ELSE CHOOSE i \in later : \A j \in later : i <= j
    IN SubSeq(sorted, 1, at - 1) \o <<d>> \o SubSeq(sorted, at, Len(sorted))

RECURSIVE sort_decks(_)
sort_decks(s) ==
    IF Len(s) = 0 THEN <<>>
    ELSE InsertDeck(sort_decks(SubSeq(s, 1, Len(s) - 1)), s[Len(s)])

(***************************************************************************)
(* database.rs: the record store.  An open reader is a record             *)
(*   valid    : FALSE when the bytes are no SQLite file (every query fails)*)
(*   decks    : table decks: t = "absent", "unreadable" (the SELECT cannot *)
(*              be prepared) or "rows" with its rows in scan order         *)
(*   col_decks: column decks of table col: t = "none" (no text value),     *)
(*              "blank", "malformed" (no JSON), "value" (JSON, no object)  *)
(*              or "object" with its members in iteration order            *)
(*   cards    : cards JOIN notes: t = "absent" or "rows" in scan order     *)
(***************************************************************************)

\* i64::from_le_bytes of the first 8 bytes (the inputs stay below 2^31)
RECURSIVE LeValue(_, _)
LeValue(b, i) == IF i > 8 THEN 0 ELSE b[i] + 256 * LeValue(b, i + 1)

\* column id of a decks row: Integer, Blob (little-endian i64) or anything else
RowId(col) ==
    CASE col.t = "int" -> col.v
      [] col.t = "blob" -> IF Len(col.b) >= 8 THEN LeValue(col.b, 1) ELSE 0
      [] OTHER -> 0

\* column name of a decks row: Text and Blob give their bytes, anything else none
RowNameBytes(col) == IF col.t \in {"text", "blob"} THEN col.b ELSE <<>>

\* the varint skip loop: first index (0-based) at or after i whose byte has no MSB
RECURSIVE SkipVarint(_, _)
SkipVarint(data, i) ==
    IF i < Len(data) /\ data[i + 1] >= 128 THEN SkipVarint(data, i + 1) ELSE i

\* the while loop of extract_name_from_protobuf, i the 0-based index of the code
RECURSIVE ProtoScan(_, _)
ProtoScan(data, i0) ==
    IF i0 >= Len(data) THEN None
    ELSE
      LET tag == data[i0 + 1]
          i == i0 + 1
      IN IF i >= Len(data) THEN None
         ELSE IF tag = 18
         THEN LET len == data[i + 1]
                  j == i + 1
              IN IF j + len <= Len(data) /\ Utf8Valid(SubSeq(data, j + 1, j + len))
                 THEN Some(SubSeq(data, j + 1, j + len))
                 ELSE ProtoScan(data, j)
         ELSE CASE tag % 8 = 0 -> ProtoScan(data, SkipVarint(data, i) + 1)
                [] tag % 8 = 1 -> ProtoScan(data, i + 8)
                [] tag % 8 = 2 -> ProtoScan(data, i + 1 + data[i + 1])
                [] tag % 8 = 5 -> ProtoScan(data, i + 4)
                [] OTHER -> ProtoScan(data, i + 1)

extract_name_from_protobuf(data) == ProtoScan(data, 0)

\* name of a decks row: the bytes as UTF-8, else the protobuf name, else ""
RowName(bytes) ==
    IF Utf8Valid(bytes) THEN bytes
    ELSE LET n == extract_name_from_protobuf(bytes)
         IN IF n.some THEN n.v ELSE <<>>

\* the for loop over the rows of table decks
RECURSIVE ModernRows(_)
ModernRows(rows) ==
    IF Len(rows) = 0 THEN <<>>
    ELSE LET r == rows[Len(rows)]
             id == RowId(r.id)
             name == RowName(RowNameBytes(r.name))
             before == ModernRows(SubSeq(rows, 1, Len(rows) - 1))
         IN IF id = 0 THEN before
            ELSE IF name # <<>> THEN Append(before, from_name(id, name))
            ELSE before

parse_decks_modern(db) ==
    IF ~db.valid \/ db.decks.t = "absent" THEN Ok(<<>>)
    ELSE IF db.decks.t = "unreadable" THEN Err("DatabaseError")
    ELSE Ok(sort_decks(ModernRows(db.decks.rows)))

\* the for loop over the members of the JSON object
RECURSIVE LegacyEntries(_)
LegacyEntries(entries) ==
    IF Len(entries) = 0 THEN <<>>
    ELSE LET e == entries[Len(entries)]
             p == ParseI64(e.key)
             id == IF p.some THEN p.v ELSE 0
             name == IF e.name.t = "str" THEN e.name.b ELSE <<>>
             before == LegacyEntries(SubSeq(entries, 1, Len(entries) - 1))
         IN IF name = <<>> THEN before ELSE Append(before, from_name(id, name))

parse_decks_legacy(db) ==
    IF ~db.valid \/ db.col_decks.t \in {"none", "blank"} THEN Ok(<<>>)
    ELSE IF db.col_decks.t = "malformed" THEN Err("JsonError")
    ELSE IF db.col_decks.t = "value" THEN Ok(<<>>)
    ELSE Ok(sort_decks(LegacyEntries(db.col_decks.entries)))

parse_decks(db) ==
    LET modern == parse_decks_modern(db)
    IN IF modern.ok /\ modern.v # <<>> THEN modern ELSE parse_decks_legacy(db)

\* card_count and the loop of parse_cards: rows grouped by deck id, in scan order
CardOf(r) == [id |-> r.id, note_id |-> r.nid, deck_id |-> r.did]

CardsOfDeck(rows, did) ==
    LET Pick(r) == r.did = did
        picked == SelectSeq(rows, Pick)
    IN [i \in 1..Len(picked) |-> CardOf(picked[i])]

parse_cards(db) ==
    IF ~db.valid \/ db.cards.t = "absent" THEN Err("DatabaseError")
    ELSE LET rows == db.cards.rows
             dids == {rows[i].did : i \in 1..Len(rows)}
         IN Ok([did \in dids |-> CardsOfDeck(rows, did)])

(***************************************************************************)
(* archive.rs: the container.  An archive is a record                      *)
(*   state : "missing" (no file at the path), "corrupt" (no zip) or "zip"  *)
(*   db    : the record-store entries present, by name, with their bytes   *)
(*   media : the entry "media": t = "absent", "unreadable", "empty",       *)
(*           "blank", "garbage" (no JSON), "not_flat" (JSON, but no object *)
(*           of strings) or "object" with its mapping                      *)
(*   files : the other entries present, by name, with their bytes          *)
(***************************************************************************)

Magic == <<40, 181, 47, 253>>

HasMagic(data) == Len(data) >= 4 /\ SubSeq(data, 1, 4) = Magic

\* zstd::decode_all.  A well-formed frame is modelled as the magic number, one
\* byte n and exactly n bytes of content; decoding anything else fails.
zstd_decode_all(data) ==
    IF HasMagic(data) /\ Len(data) >= 5 /\ Len(data) = 5 + data[5]
    THEN Ok(SubSeq(data, 6, Len(data)))
    ELSE Err("DecompressionError")

Frame(content) == Magic \o <<Len(content)>> \o content

\* a sniff of the first three bytes only
archive_decompress_zstd_three_bytes(data) ==
    IF Len(data) < 4 \/ SubSeq(data, 1, 3) # SubSeq(Magic, 1, 3) THEN Ok(data)
    ELSE zstd_decode_all(data)

\* archive.rs decompress_zstd: sniffs the magic number
archive_decompress_zstd(data) ==
    IF Len(data) < 4 \/ SubSeq(data, 1, 4) # Magic THEN Ok(data) ELSE zstd_decode_all(data)

db_filename(fmt) ==
    CASE fmt = "Legacy" -> "collection.anki2"
      [] fmt = "Modern" -> "collection.anki21"
      [] fmt = "Compressed" -> "collection.anki21b"

detect_format_legacy_first(a) ==
    IF "collection.anki2" \in DOMAIN a.db THEN Ok("Legacy")
    ELSE IF "collection.anki21" \in DOMAIN a.db THEN Ok("Modern")
    ELSE IF "collection.anki21b" \in DOMAIN a.db THEN Ok("Compressed")
    ELSE Err("InvalidArchive")

detect_format(a) ==
    IF "collection.anki21b" \in DOMAIN a.db THEN Ok("Compressed")
    ELSE IF "collection.anki21" \in DOMAIN a.db THEN Ok("Modern")
    ELSE IF "collection.anki2" \in DOMAIN a.db THEN Ok("Legacy")
    ELSE Err("InvalidArchive")

\* AnkiArchive::open and from_bytes
open(a) ==
    CASE a.state = "missing" -> Err("FileNotFound")
      [] a.state = "corrupt" -> Err("InvalidArchive")
      [] OTHER -> detect_format(a)

extract_database(a, fmt) ==
    LET db_name == db_filename(fmt)
    IN IF db_name \notin DOMAIN a.db THEN Err("InvalidArchive")
       ELSE IF fmt = "Compressed" THEN archive_decompress_zstd(a.db[db_name])
       ELSE Ok(a.db[db_name])

extract_media_mapping_strict(a) ==
    CASE a.media.t = "absent" -> Ok(EmptyMap)
      [] a.media.t = "unreadable" -> Err("IoError")
      [] a.media.t \in {"empty", "blank"} -> Ok(EmptyMap)
      [] a.media.t \in {"garbage", "not_flat"} -> Err("JsonError")
      [] OTHER -> Ok(a.media.map)

extract_media_mapping(a) ==
    CASE a.media.t = "absent" -> Ok(EmptyMap)
      [] a.media.t = "unreadable" -> Err("IoError")
      [] a.media.t \in {"empty", "blank"} -> Ok(EmptyMap)
      [] a.media.t \in {"garbage", "not_flat"} -> Ok(EmptyMap)
      [] OTHER -> Ok(a.media.map)

extract_file_by_index(a, index) ==
    IF index \in DOMAIN a.files THEN Ok(Some(a.files[index])) ELSE Ok(None)

extract_media(a, index) ==
    LET f == extract_file_by_index(a, index)
    IN IF ~f.v.some THEN Ok(None)
       ELSE LET d == archive_decompress_zstd(f.v.v)
            IN IF d.ok THEN Ok(Some(d.v)) ELSE d

(***************************************************************************)
(* media.rs: classification, signatures                                    *)
(***************************************************************************)

AUDIO_EXTENSIONS ==
    { <<109, 112, 51>>,        \* mp3
      <<119, 97, 118>>,        \* wav
      <<109, 52, 97>>,         \* m4a
      <<111, 103, 103>>,       \* ogg
      <<102, 108, 97, 99>>,    \* flac
      <<97, 97, 99>>,          \* aac
      <<111, 112, 117, 115>>,  \* opus
      <<119, 109, 97>> }       \* wma

IMAGE_EXTENSIONS ==
    { <<106, 112, 103>>,       \* jpg
      <<106, 112, 101, 103>>,  \* jpeg
      <<112, 110, 103>>,       \* png
      <<103, 105, 102>>,       \* gif
      <<119, 101, 98, 112>>,   \* webp
      <<98, 109, 112>>,        \* bmp
      <<115, 118, 103>>,       \* svg
      <<105, 99, 111>>,        \* ico
      <<116, 105, 102, 102>> } \* tiff

\* str::to_lowercase on ASCII text
ToLower(s) == [i \in 1..Len(s) |-> IF s[i] >= 65 /\ s[i] <= 90 THEN s[i] + 32 ELSE s[i]]

HasDot(s) == \E i \in 1..Len(s) : s[i] = 46

\* str::rsplit('.').next(): the text after the last '.', or all of s
AfterLastDot(s) ==
    IF HasDot(s)
    THEN LET i == CHOOSE k \in 1..Len(s) : s[k] = 46 /\ \A m \in (k + 1)..Len(s) : s[m] # 46
         IN SubSeq(s, i + 1, Len(s))
    ELSE s

media_type_from_extension(filename) ==
    LET ext == ToLower(AfterLastDot(filename))
    IN IF ext \in AUDIO_EXTENSIONS THEN "Audio"
       ELSE IF ext \in IMAGE_EXTENSIONS THEN "Image"
       ELSE "Unknown"

is_zstd_compressed(data) == Len(data) >= 4 /\ SubSeq(data, 1, 4) = Magic

\* media.rs decompress_zstd: no sniff
media_decompress_zstd(data) == zstd_decode_all(data)

StartsWith(data, prefix) ==
    Len(data) >= Len(prefix) /\ SubSeq(data, 1, Len(prefix)) = prefix

\* iter().skip_while(whitespace).take(5)
RECURSIVE SkipWhitespace(_)
SkipWhitespace(data) ==
    IF Len(data) > 0 /\ data[1] \in {32, 9, 10, 13} THEN SkipWhitespace(Tail(data)) ELSE data

Take(data, n) == SubSeq(data, 1, IF Len(data) < n THEN Len(data) ELSE n)

is_valid_image(data) ==
    /\ Len(data) >= 8
    /\ \/ StartsWith(data, <<255, 216>>)
       \/ StartsWith(data, <<137, 80, 78, 71, 13, 10, 26, 10>>)
       \/ StartsWith(data, <<71, 73, 70, 56, 55, 97>>)
       \/ StartsWith(data, <<71, 73, 70, 56, 57, 97>>)
       \/ StartsWith(data, <<82, 73, 70, 70>>) /\ Len(data) >= 12
            /\ SubSeq(data, 9, 12) = <<87, 69, 66, 80>>
       \/ data[1] = 66 /\ data[2] = 77
       \/ StartsWith(Take(SkipWhitespace(data), 5), <<60, 63, 120, 109, 108>>)
       \/ StartsWith(Take(SkipWhitespace(data), 5), <<60, 115, 118, 103>>)

is_valid_audio(data) ==
    /\ Len(data) >= 4
    /\ \/ StartsWith(data, <<73, 68, 51>>)
       \/ data[1] = 255 /\ data[2] >= 224
       \/ StartsWith(data, <<79, 103, 103, 83>>)
       \/ StartsWith(data, <<102, 76, 97, 67>>)
       \/ StartsWith(data, <<82, 73, 70, 70>>) /\ Len(data) >= 12
            /\ SubSeq(data, 9, 12) = <<87, 65, 86, 69>>
       \/ Len(data) >= 8 /\ SubSeq(data, 5, 8) = <<102, 116, 121, 112>>

is_valid(media_type, data) ==
    CASE media_type = "Image" -> is_valid_image(data)
      [] media_type = "Audio" -> is_valid_audio(data)
      [] OTHER -> FALSE

(***************************************************************************)
(* models.rs: AnkiMediaStore, a record [data, filenames]                   *)
(***************************************************************************)

EmptyStore == [data |-> EmptyMap, filenames |-> <<>>]

store_insert(store, filename, data) ==
    [data |-> (filename :> data) @@ store.data,
     filenames |-> IF filename \notin DOMAIN store.data
                   THEN Append(store.filenames, filename)
                   ELSE store.filenames]

\* AnkiMediaStore::add_filename
store_add_filename(store, filename) ==
    [data |-> store.data,
     filenames |-> IF filename \notin DOMAIN store.data
                      /\ \A i \in DOMAIN store.filenames : store.filenames[i] # filename
                   THEN Append(store.filenames, filename)
                   ELSE store.filenames]

\* AnkiMediaStore::filenames
store_filenames(store) == store.filenames

\* AnkiMediaStore::data_for
store_data_for(store, filename) ==
    IF filename \in DOMAIN store.data THEN Some(store.data[filename]) ELSE None

\* AnkiMediaStore::count
store_count(store) == Len(store.filenames)

(***************************************************************************)
(* media.rs: process_media                                                 *)
(***************************************************************************)

Kept(store) == [err |-> "none", store |-> store, warned |-> {}, reports |-> FALSE]

iteration_validating(a, store, index, filename) ==
    LET media_type == media_type_from_extension(filename)
        x == extract_media(a, index)
    IN IF media_type = "Unknown" THEN Kept(store)
       ELSE IF ~x.ok THEN [Kept(store) EXCEPT !.err = x.e]
       ELSE IF ~x.v.some THEN [Kept(store) EXCEPT !.reports = TRUE]
       ELSE LET data == IF is_zstd_compressed(x.v.v)
                        THEN media_decompress_zstd(x.v.v) ELSE Ok(x.v.v)
            IN IF ~data.ok THEN [Kept(store) EXCEPT !.warned = {<<"decompress", filename>>}]
               ELSE IF is_valid(media_type, data.v)
               THEN [err |-> "none", store |-> store_insert(store, filename, data.v),
                     warned |-> {}, reports |-> TRUE]
               ELSE [err |-> "none", store |-> store,
                     warned |-> {<<"invalid", filename>>}, reports |-> TRUE]

\* one iteration of the for loop over the mapping: err is the error the
\* iteration returns with ("none" when the loop goes on), reports tells whether
\* the iteration reaches the progress check at its end
iteration(a, store, index, filename) ==
    LET media_type == media_type_from_extension(filename)
        x == extract_media(a, index)
    IN IF media_type = "Unknown" THEN Kept(store)
       ELSE IF ~x.ok THEN [Kept(store) EXCEPT !.err = x.e]
       ELSE IF ~x.v.some THEN [Kept(store) EXCEPT !.reports = TRUE]
       ELSE LET data == IF is_zstd_compressed(x.v.v)
                        THEN media_decompress_zstd(x.v.v) ELSE Ok(x.v.v)
            IN IF ~data.ok THEN [Kept(store) EXCEPT !.warned = {<<"decompress", filename>>}]
               ELSE [err |-> "none",
                     store |-> store_insert(store, filename, data.v),
                     warned |-> IF is_valid(media_type, data.v) THEN {}
                                ELSE {<<"invalid", filename>>},
                     reports |-> TRUE]

\* process_media up to its loop: a new store, the mapping, the early return
MediaBegin ==
    LET m == extract_media_mapping(archive)
    IN /\ store_data' = EmptyMap
       /\ filenames_list' = <<>>
       /\ progress' = <<>>
       /\ log' = {}
       /\ current' = 0
       /\ IF ~m.ok
          THEN /\ result' = m.e
               /\ pc' = "failed"
               /\ UNCHANGED <<mapping, remaining>>
          ELSE /\ mapping' = m.v
               /\ remaining' = DOMAIN m.v
               /\ result' = result
               /\ pc' = IF Cardinality(DOMAIN m.v) = 0 THEN "media_done" ELSE "media_loop"

\* one iteration, over any entry not visited yet (HashMap iteration order)
MediaStep ==
    /\ pc = "media_loop"
    /\ \E index \in remaining :
        LET r == iteration(archive, [data |-> store_data, filenames |-> filenames_list],
                           index, mapping[index])
        IN IF r.err # "none"
           THEN /\ result' = r.err
                /\ pc' = "failed"
                /\ UNCHANGED <<remaining, current, store_data, filenames_list, progress, log>>
           ELSE /\ remaining' = remaining \ {index}
                /\ current' = current + 1
                /\ store_data' = r.store.data
                /\ filenames_list' = r.store.filenames
                /\ log' = log \cup r.warned
                /\ progress' = IF r.reports /\ (current + 1) % 100 = 0
                               THEN Append(progress, <<current + 1, Cardinality(DOMAIN mapping)>>)
                               ELSE progress
                /\ UNCHANGED <<pc, result>>
    /\ AtReturn(pc')
    /\ Elsewhere
    /\ UNCHANGED <<signals, archive, format, db_data, database, decks,
                   parsed_count, cards_by_deck, collection, mapping>>

\* after the loop: the final progress update, Ok(store)
MediaEnd ==
    /\ pc = "media_loop"
    /\ remaining = {}
    /\ progress' = Append(progress, <<current, Cardinality(DOMAIN mapping)>>)
    /\ pc' = "media_done"
    /\ AtReturn(pc')
    /\ Elsewhere
    /\ UNCHANGED <<signals, result, archive, format, db_data, database, decks,
                   parsed_count, cards_by_deck, collection, mapping, remaining, current,
                   store_data, filenames_list, log>>

(***************************************************************************)
(* models.rs: AnkiCollection::new                                          *)
(***************************************************************************)

AnkiCollection_new(ds, cards, media) ==
    [decks |-> ds,
     root_decks |-> SelectSeq(ds, is_root),
     cards_by_deck |-> [k \in {I64ToString(did) : did \in DOMAIN cards} |->
                          cards[CHOOSE did \in DOMAIN cards : I64ToString(did) = k]],
     media |-> media]

NoCollection ==
    [decks |-> <<>>, root_decks |-> <<>>, cards_by_deck |-> EmptyMap, media |-> EmptyStore]

(***************************************************************************)
(* lib.rs: parse_anki_file                                                 *)
(***************************************************************************)

SqliteHeader == <<83, 81, 76, 105, 116, 101>>

\* the reader AnkiDatabase::open_from_bytes gives for the extracted bytes
Reader == [valid |-> StartsWith(db_data, SqliteHeader),
           decks |-> database.decks,
           col_decks |-> database.col_decks,
           cards |-> database.cards]

\* "Deck "
DeckPrefix == <<68, 101, 99, 107, 32>>

\* all orders in which a HashMap may yield the keys
KeyOrders(keys) ==
    {o \in [1..Cardinality(keys) -> keys] : \A i, j \in DOMAIN o : i # j => o[i] # o[j]}

missing_decks_none(ds, order) == ds

\* the loop over cards_by_deck.keys(), which come in the order given
missing_decks(ds, order) ==
    LET known_deck_ids == {ds[i].id : i \in DOMAIN ds}
        Orphan(deck_id) == deck_id \notin known_deck_ids
        orphans == SelectSeq(order, Orphan)
    IN ds \o [i \in 1..Len(orphans) |->
                from_name(orphans[i], DeckPrefix \o I64ToString(orphans[i]))]

Fail(e) == result' = e /\ pc' = "failed"

\* Phase 1: on_progress(Extracting), AnkiArchive::open
Open ==
    /\ pc = "start"
    /\ signals' = Append(signals, "Extracting")
    /\ LET r == open(archive)
       IN IF r.ok THEN format' = r.v /\ pc' = "opened" /\ result' = result
          ELSE Fail(r.e) /\ format' = format
    /\ AtReturn(pc')
    /\ Elsewhere
    /\ UNCHANGED <<archive, db_data, database, decks, parsed_count, cards_by_deck,
                   collection, mapping, remaining, current, store_data, filenames_list,
                   progress, log>>

\* extract_database without the signal of its phase
ExtractDatabase_unannounced ==
    /\ pc = "opened"
    /\ signals' = signals
    /\ LET r == extract_database(archive, format)
       IN IF r.ok THEN db_data' = r.v /\ pc' = "extracted" /\ result' = result
          ELSE Fail(r.e) /\ db_data' = db_data
    /\ AtReturn(pc')
    /\ Elsewhere
    /\ UNCHANGED <<archive, format, database, decks, parsed_count, cards_by_deck,
                   collection, mapping, remaining, current, store_data, filenames_list,
                   progress, log>>

\* Phase 2: on_progress(ReadingDecks), extract_database
ExtractDatabase ==
    /\ pc = "opened"
    /\ signals' = Append(signals, "ReadingDecks")
    /\ LET r == extract_database(archive, format)
       IN IF r.ok THEN db_data' = r.v /\ pc' = "extracted" /\ result' = result
          ELSE Fail(r.e) /\ db_data' = db_data
    /\ AtReturn(pc')
    /\ Elsewhere
    /\ UNCHANGED <<archive, format, database, decks, parsed_count, cards_by_deck,
                   collection, mapping, remaining, current, store_data, filenames_list,
                   progress, log>>

\* AnkiDatabase::open_from_bytes: writing the temporary file or opening it may fail
OpenFromBytes ==
    /\ pc = "extracted"
    /\ \E outcome \in {"ok", "IoError", "DatabaseError"} :
          /\ IF outcome = "ok" THEN pc' = "db_open" /\ result' = result ELSE Fail(outcome)
          /\ temp_file' = IF outcome = "IoError" THEN temp_file ELSE "present"
    /\ Elsewhere
    /\ UNCHANGED <<signals, archive, format, db_data, database, decks, parsed_count,
                   cards_by_deck, collection, mapping, remaining, current, store_data,
                   filenames_list, progress, log>>

\* db.parse_decks()
ParseDecks ==
    /\ pc = "db_open"
    /\ LET r == parse_decks(Reader)
       IN IF r.ok
          THEN decks' = r.v /\ parsed_count' = Len(r.v) /\ pc' = "decks_parsed"
               /\ result' = result
          ELSE Fail(r.e) /\ UNCHANGED <<decks, parsed_count>>
    /\ AtReturn(pc')
    /\ Elsewhere
    /\ UNCHANGED <<signals, archive, format, db_data, database, cards_by_deck, collection,
                   mapping, remaining, current, store_data, filenames_list, progress, log>>

\* Phase 3: on_progress(ReadingCards), db.parse_cards
ParseCards ==
    /\ pc = "decks_parsed"
    /\ signals' = Append(signals, "ReadingCards")
    /\ LET r == parse_cards(Reader)
       IN IF r.ok THEN cards_by_deck' = r.v /\ pc' = "cards_parsed" /\ result' = result
          ELSE Fail(r.e) /\ cards_by_deck' = cards_by_deck
    /\ AtReturn(pc')
    /\ Elsewhere
    /\ UNCHANGED <<archive, format, db_data, database, decks, parsed_count, collection,
                   mapping, remaining, current, store_data, filenames_list, progress, log>>

\* the placeholder decks of orphaned cards
MissingDecks ==
    /\ pc = "cards_parsed"
    /\ \E order \in KeyOrders(DOMAIN cards_by_deck) : decks' = missing_decks(decks, order)
    /\ pc' = "reconciled"
    /\ AtReturn(pc')
    /\ Elsewhere
    /\ UNCHANGED <<signals, result, archive, format, db_data, database, parsed_count,
                   cards_by_deck, collection, mapping, remaining, current, store_data,
                   filenames_list, progress, log>>

\* Phase 4: on_progress(ProcessingMedia), the call of process_media
ProcessMedia ==
    /\ pc = "reconciled"
    /\ signals' = Append(signals, "ProcessingMedia")
    /\ MediaBegin
    /\ AtReturn(pc')
    /\ Elsewhere
    /\ UNCHANGED <<archive, format, db_data, database, decks, parsed_count, cards_by_deck,
                   collection>>

CompleteSilently ==
    /\ pc = "media_done"
    /\ signals' = signals
    /\ collection' = AnkiCollection_new(decks, cards_by_deck,
                                        [data |-> store_data, filenames |-> filenames_list])
    /\ result' = "ok"
    /\ pc' = "done"
    /\ AtReturn(pc')
    /\ Elsewhere
    /\ UNCHANGED <<archive, format, db_data, database, decks, parsed_count, cards_by_deck,
                   mapping, remaining, current, store_data, filenames_list, progress, log>>

\* Phase 5: on_progress(Complete), Ok(AnkiCollection::new(..))
Complete ==
    /\ pc = "media_done"
    /\ signals' = Append(signals, "Complete")
    /\ collection' = AnkiCollection_new(decks, cards_by_deck,
                                        [data |-> store_data, filenames |-> filenames_list])
    /\ result' = "ok"
    /\ pc' = "done"
    /\ AtReturn(pc')
    /\ Elsewhere
    /\ UNCHANGED <<archive, format, db_data, database, decks, parsed_count, cards_by_deck,
                   mapping, remaining, current, store_data, filenames_list, progress, log>>

\* process_media called on its own
CallProcessMedia ==
    /\ pc = "process_media"
    /\ MediaBegin
    /\ AtReturn(pc')
    /\ Elsewhere
    /\ UNCHANGED <<signals, archive, format, db_data, database, decks, parsed_count,
                   cards_by_deck, collection>>

(***************************************************************************)
(* Inputs                                                                  *)
(***************************************************************************)

MaxRows == 3

MaxAssets == 2

TextCol(b) == [t |-> "text", b |-> b]

IntCol(v) == [t |-> "int", v |-> v, b |-> <<>>]

\* "A", "B", "A::B", "A::B::C", "A::", "A:::B"
DeckNames ==
    { <<65>>, <<66>>, <<65, 58, 58, 66>>, <<65, 58, 58, 66, 58, 58, 67>>,
      <<65, 58, 58>>, <<65, 58, 58, 58, 66>> }

\* a record that is no UTF-8: field 1 (varint 150), field 2 = "C"
ProtobufName == <<8, 150, 1, 18, 1, 67>>

\* a record whose bytes are UTF-8 as they stand: field 2 = "C"
AsciiRecord == <<18, 1, 67>>

NameColumns ==
    {TextCol(n) : n \in DeckNames \cup {<<>>}}
        \cup {[t |-> "null", b |-> <<>>], [t |-> "blob", b |-> ProtobufName],
              [t |-> "blob", b |-> AsciiRecord]}

\* the rows table decks may hold at position i: id i with any name column, id 0,
\* or an id stored as an 8-byte blob
RowsAt(i) ==
    {[id |-> IntCol(i), name |-> n] : n \in NameColumns}
        \cup {[id |-> IntCol(0), name |-> TextCol(<<65>>)],
              [id |-> [t |-> "blob", v |-> 0, b |-> <<4 + i, 0, 0, 0, 0, 0, 0, 0>>],
               name |-> TextCol(<<66>>)]}

RECURSIVE RowSeqs(_)
RowSeqs(n) ==
    IF n = 0 THEN {<<>>}
    ELSE LET shorter == RowSeqs(n - 1)
         IN shorter \cup {Append(s, r) : s \in {x \in shorter : Len(x) = n - 1}, r \in RowsAt(n)}

\* the members the JSON object may hold at position i: the keys are distinct
MembersAt(i) ==
    {[key |-> k, name |-> n] :
        k \in {Digits(i)} \cup (IF i = 1 THEN {<<120>>, <<48>>} ELSE {}),
        n \in {[t |-> "str", b |-> b] : b \in DeckNames \cup {<<>>}}
                \cup {[t |-> "missing", b |-> <<>>]}}

RECURSIVE MemberSeqs(_)
MemberSeqs(n) ==
    IF n = 0 THEN {<<>>}
    ELSE LET shorter == MemberSeqs(n - 1)
         IN shorter \cup {Append(s, m) : s \in {x \in shorter : Len(x) = n - 1},
                                          m \in MembersAt(n)}

Table(t, rows) == [t |-> t, rows |-> rows]

Column(t, entries) == [t |-> t, entries |-> entries]

NoObject == {Column(t, <<>>) : t \in {"none", "blank", "malformed", "value"}}

\* the record stores categories() is applied to
DeckDatabases ==
    {[decks |-> Table("rows", r), col_decks |-> c, cards |-> Table("absent", <<>>)] :
        r \in RowSeqs(MaxRows), c \in {Column("none", <<>>)}}
    \cup
    {[decks |-> Table("absent", <<>>), col_decks |-> Column("object", e),
      cards |-> Table("absent", <<>>)] : e \in MemberSeqs(MaxRows)}
    \cup
    {[decks |-> d, col_decks |-> c, cards |-> Table("absent", <<>>)] :
        d \in {Table("absent", <<>>), Table("unreadable", <<>>),
               Table("rows", <<[id |-> IntCol(0), name |-> TextCol(<<65>>)]>>)},
        c \in NoObject \cup {Column("object", e) : e \in MemberSeqs(1)}}

CardRow(id, did) == [id |-> id, nid |-> 100 + id, did |-> did]

\* the record stores of the ingestion runs
PipelineDatabases ==
    {[decks |-> d, col_decks |-> c, cards |-> k] :
        d \in {Table("absent", <<>>),
               Table("rows", <<[id |-> IntCol(1), name |-> TextCol(<<65>>)],
                               [id |-> IntCol(2), name |-> TextCol(<<65, 58, 58, 66>>)]>>),
               Table("rows", <<[id |-> IntCol(1), name |-> TextCol(<<66, 58, 58>>)]>>)},
        c \in {Column("none", <<>>), Column("malformed", <<>>),
               Column("object", <<[key |-> <<49>>, name |-> [t |-> "str", b |-> <<65>>]],
                                  [key |-> <<120>>,
                                   name |-> [t |-> "str", b |-> <<67, 58, 58, 68>>]]>>)},
        k \in {Table("absent", <<>>), Table("rows", <<>>),
               Table("rows", <<CardRow(10, 1), CardRow(11, 7), CardRow(12, 1),
                               CardRow(13, -3)>>)}}

DbNames == {"collection.anki21b", "collection.anki21", "collection.anki2"}

\* the bytes of a record-store entry: a SQLite file that ends with a byte telling
\* the entries apart
DbBytes(name) ==
    SqliteHeader \o (CASE name = "collection.anki21b" -> <<98>>
                       [] name = "collection.anki21" -> <<49>>
                       [] OTHER -> <<50>>)

BadFrame == Magic \o <<9>>

\* the record-store entries of a container: any of the three names; the
\* compressed one holds a frame, a broken frame or the plain file
DbEntries ==
    {[n \in present |-> IF n = "collection.anki21b" THEN b ELSE DbBytes(n)] :
        present \in SUBSET DbNames,
        b \in {Frame(DbBytes("collection.anki21b")), BadFrame, DbBytes("collection.anki21b")}}

Id3Audio == <<73, 68, 51, 4, 0>>

Junk == <<0, 0, 0, 0, 0, 0, 0, 0>>

\* "a.mp3", "b.PNG", "c.xyz", "mp3"
Filenames ==
    { <<97, 46, 109, 112, 51>>, <<98, 46, 80, 78, 71>>, <<99, 46, 120, 121, 122>>,
      <<109, 112, 51>> }

Blobs == {Id3Audio, Junk, BadFrame, Frame(Id3Audio), Frame(BadFrame)}

KeyNames == <<"0", "1", "2", "3", "4">>

Keys == {KeyNames[i] : i \in 1..MaxAssets}

Media(t, map) == [t |-> t, map |-> map]

NoIndex == {Media(t, EmptyMap) : t \in {"absent", "unreadable", "empty", "blank",
                                        "garbage", "not_flat"}}

Zip(db, media, files) == [state |-> "zip", db |-> db, media |-> media, files |-> files]

OneDb == [n \in {"collection.anki21"} |-> DbBytes(n)]

\* the entries a container may hold for the keys of an index: any bytes for a
\* media filename, one choice of bytes for "c.xyz", whose entry is never read
FilesFor(map, stored) ==
    {files \in [stored -> Blobs] :
        \A k \in stored : map[k] = <<99, 46, 120, 121, 122>> => files[k] = Id3Audio}

\* the containers process_media is applied to: any index over the keys, and
\* entries for any of the keys of the index
MediaArchives ==
    {Zip(OneDb, m, [k \in {"0"} |-> Id3Audio]) : m \in NoIndex}
    \cup
    UNION {UNION {UNION {{Zip(OneDb, Media("object", map), files) :
                             files \in FilesFor(map, stored)} :
                         map \in [indexed -> Filenames]} :
                  stored \in SUBSET indexed} :
           indexed \in SUBSET Keys}

\* the media parts of the containers of the ingestion runs
PipelineMedia ==
    {<<m, [k \in {"0"} |-> Id3Audio]>> : m \in NoIndex}
    \cup
    { <<Media("object", EmptyMap), EmptyMap>>,
      <<Media("object", [k \in {"0"} |-> <<97, 46, 109, 112, 51>>]),
        [k \in {"0"} |-> Id3Audio]>>,
      <<Media("object", [k \in {"0"} |-> <<99, 46, 120, 121, 122>>]),
        [k \in {"0"} |-> Junk]>>,
      <<Media("object", [k \in {"0", "1"} |->
                            IF k = "0" THEN <<97, 46, 109, 112, 51>> ELSE <<98, 46, 80, 78, 71>>]),
        [k \in {"0", "1"} |-> IF k = "0" THEN BadFrame ELSE Junk]>> }

PipelineArchives ==
    {[state |-> st, db |-> EmptyMap, media |-> Media("absent", EmptyMap), files |-> EmptyMap] :
        st \in {"missing", "corrupt"}}
    \cup {Zip(db, mf[1], mf[2]) : db \in DbEntries, mf \in PipelineMedia}

(***************************************************************************)
(* Specifications                                                          *)
(***************************************************************************)

\* both locks free
FreeLocks ==
    [data |-> [w |-> 0, r |-> {}], filenames_list |-> [w |-> 0, r |-> {}],
     writer_first |-> FALSE]

\* no host thread uses the store
NoThreads == <<>>

Idle ==
    /\ result = "none"
    /\ format = "none"
    /\ decks = <<>>
    /\ parsed_count = 0
    /\ cards_by_deck = EmptyMap
    /\ collection = NoCollection
    /\ mapping = EmptyMap
    /\ remaining = {}
    /\ current = 0
    /\ store_data = EmptyMap
    /\ filenames_list = <<>>
    /\ progress = <<>>
    /\ log = {}
    /\ locks = FreeLocks
    /\ threads = NoThreads
    /\ input = <<>>
    /\ output = <<>>
    /\ temp_dir = NoFiles
    /\ readers = NoReaders

\* an ingestion run: parse_anki_file on a container
Init ==
    /\ pc = "start"
    /\ signals = <<>>
    /\ archive \in PipelineArchives
    /\ database \in PipelineDatabases
    /\ db_data = <<>>
    /\ temp_file = "absent"
    /\ Idle

Next ==
    \/ Open
    \/ ExtractDatabase
    \/ OpenFromBytes
    \/ ParseDecks
    \/ ParseCards
    \/ MissingDecks
    \/ ProcessMedia
    \/ MediaStep
    \/ MediaEnd
    \/ Complete

Spec == Init /\ [][Next]_vars

\* categories() on an open reader
InitDecks ==
    /\ pc = "db_open"
    /\ signals = <<"Extracting", "ReadingDecks">>
    /\ archive = Zip(OneDb, Media("absent", EmptyMap), EmptyMap)
    /\ database \in DeckDatabases
    /\ db_data = DbBytes("collection.anki21")
    /\ temp_file = "present"
    /\ Idle

NextDecks == ParseDecks

SpecDecks == InitDecks /\ [][NextDecks]_vars

\* process_media on an open container
InitMedia ==
    /\ pc = "process_media"
    /\ signals = <<>>
    /\ archive \in MediaArchives
    /\ database = [decks |-> Table("absent", <<>>), col_decks |-> Column("none", <<>>),
                   cards |-> Table("rows", <<>>)]
    /\ db_data = <<>>
    /\ temp_file = "absent"
    /\ Idle

NextMedia ==
    \/ CallProcessMedia
    \/ MediaStep
    \/ MediaEnd

SpecMedia == InitMedia /\ [][NextMedia]_vars

\* the store a host holds: insert and add_filename in any order
MaxListed == 3

\* "a.mp3", "b.PNG", "mp3"
StoreNames == { <<97, 46, 109, 112, 51>>, <<98, 46, 80, 78, 71>>, <<109, 112, 51>> }

StoreBlobs == {Id3Audio, Junk}

TheStore == [data |-> store_data, filenames |-> filenames_list]

StoreUnchanged ==
    UNCHANGED <<pc, signals, result, archive, format, db_data, database, decks,
                parsed_count, cards_by_deck, collection, mapping, remaining, current,
                progress, log, temp_file, locks, threads, input, output, temp_dir, readers>>

StoreInsert ==
    /\ pc = "store"
    /\ Len(filenames_list) < MaxListed
    /\ \E f \in StoreNames, d \in StoreBlobs :
          LET s == store_insert(TheStore, f, d)
          IN store_data' = s.data /\ filenames_list' = s.filenames
    /\ StoreUnchanged

StoreAddFilename ==
    /\ pc = "store"
    /\ Len(filenames_list) < MaxListed
    /\ \E f \in StoreNames :
          LET s == store_add_filename(TheStore, f)
          IN store_data' = s.data /\ filenames_list' = s.filenames
    /\ StoreUnchanged

InitStore ==
    /\ pc = "store"
    /\ signals = <<>>
    /\ archive = Zip(OneDb, Media("absent", EmptyMap), EmptyMap)
    /\ database = [decks |-> Table("absent", <<>>), col_decks |-> Column("none", <<>>),
                   cards |-> Table("rows", <<>>)]
    /\ db_data = <<>>
    /\ temp_file = "absent"
    /\ Idle

NextStore ==
    \/ StoreInsert
    \/ StoreAddFilename

SpecStore == InitStore /\ [][NextStore]_vars

(***************************************************************************)
(* models.rs: the store shared by host threads.  Every operation is the    *)
(* sequence of its lock acquisitions, its body and the release of its      *)
(* guards (in reverse order of declaration) when it returns.               *)
(***************************************************************************)

MaxThreads == 3

Threads == 1..MaxThreads

Acq(mode, lock) == [a |-> mode, l |-> lock]

Body == [a |-> "body", l |-> "none"]

Release(lock) == [a |-> "drop", l |-> lock]

\* add_filename taking the filename-list lock before the content lock
add_filename_code_list_first ==
    <<Acq("write", "filenames_list"), Acq("read", "data"), Body,
      Release("data"), Release("filenames_list")>>

\* insert: self.data.write(), self.filenames_list.write()
insert_code ==
    <<Acq("write", "data"), Acq("write", "filenames_list"), Body,
      Release("filenames_list"), Release("data")>>

\* add_filename: self.data.read(), self.filenames_list.write()
add_filename_code ==
    <<Acq("read", "data"), Acq("write", "filenames_list"), Body,
      Release("filenames_list"), Release("data")>>

\* filenames: self.filenames_list.read()
filenames_code == <<Acq("read", "filenames_list"), Body, Release("filenames_list")>>

\* data_for: self.data.read()
data_for_code == <<Acq("read", "data"), Body, Release("data")>>

\* count: self.filenames_list.read()
count_code == <<Acq("read", "filenames_list"), Body, Release("filenames_list")>>

Push == [a |-> "push", l |-> "none"]

Put == [a |-> "put", l |-> "none"]

\* insert that lists the filename under the list lock alone, then stores the bytes
insert_steps_list_released_early ==
    <<Acq("write", "filenames_list"), Push, Release("filenames_list"),
      Acq("write", "data"), Put, Release("data")>>

\* insert, statement by statement: both write guards, filenames.push unless the
\* key is there, store.insert, then the guards dropped in reverse order
insert_steps ==
    <<Acq("write", "data"), Acq("write", "filenames_list"), Push, Put,
      Release("filenames_list"), Release("data")>>

Code(op) ==
    CASE op = "insert" -> insert_code
      [] op = "insert_steps" -> insert_steps
      [] op = "add_filename" -> add_filename_code
      [] op = "filenames" -> filenames_code
      [] op = "data_for" -> data_for_code
      [] op = "count" -> count_code

Operations == {"insert", "add_filename", "filenames", "data_for", "count"}

IdleThread == [op |-> "idle", at |-> 0]

\* the step thread t is at
Instr(t) == Code(threads[t].op)[threads[t].at]

Running(t) == threads[t].op # "idle"

\* a thread is blocked in write() on the lock
WriterWaits(lock) ==
    \E t \in Threads : Running(t) /\ Instr(t) = Acq("write", lock)

\* RwLock::read and RwLock::write can return.  Whether a waiting writer holds
\* back new readers depends on the platform: locks.writer_first
CanAcquire(mode, lock) ==
    IF mode = "write"
    THEN locks[lock].w = 0 /\ locks[lock].r = {}
    ELSE locks[lock].w = 0 /\ (locks.writer_first => ~WriterWaits(lock))

Advance(t) ==
    threads' = [threads EXCEPT ![t] =
                   IF threads[t].at = Len(Code(threads[t].op)) THEN IdleThread
                   ELSE [threads[t] EXCEPT !.at = @ + 1]]

LocksUnchanged ==
    UNCHANGED <<pc, signals, result, archive, format, db_data, database, decks,
                parsed_count, cards_by_deck, collection, mapping, remaining, current,
                progress, log, temp_file, input, output, temp_dir, readers>>

\* a host thread calls an operation of the store
Start(t) ==
    /\ pc = "shared"
    /\ ~Running(t)
    /\ Len(filenames_list) < MaxListed
    /\ \E op \in Operations : threads' = [threads EXCEPT ![t] = [op |-> op, at |-> 1]]
    /\ UNCHANGED <<locks, store_data, filenames_list>>
    /\ LocksUnchanged

\* read() or write() returns its guard
Acquire(t) ==
    /\ pc = "shared"
    /\ Running(t)
    /\ Instr(t).a \in {"read", "write"}
    /\ CanAcquire(Instr(t).a, Instr(t).l)
    /\ locks' = [locks EXCEPT ![Instr(t).l] =
                    IF Instr(t).a = "write" THEN [@ EXCEPT !.w = t]
                    ELSE [@ EXCEPT !.r = @ \cup {t}]]
    /\ Advance(t)
    /\ UNCHANGED <<store_data, filenames_list>>
    /\ LocksUnchanged

\* the body of the operation, run with its guards held
RunBody(t) ==
    /\ pc = "shared"
    /\ Running(t)
    /\ Instr(t).a = "body"
    /\ LET s == CASE threads[t].op = "insert" ->
                        store_insert(TheStore, <<97, 46, 109, 112, 51>>, Id3Audio)
                  [] threads[t].op = "add_filename" ->
                        store_add_filename(TheStore, <<97, 46, 109, 112, 51>>)
                  [] OTHER -> TheStore
       IN store_data' = s.data /\ filenames_list' = s.filenames
    /\ Advance(t)
    /\ UNCHANGED locks
    /\ LocksUnchanged

\* a guard is dropped
DropGuard(t) ==
    /\ pc = "shared"
    /\ Running(t)
    /\ Instr(t).a = "drop"
    /\ locks' = [locks EXCEPT ![Instr(t).l] =
                    [w |-> IF @.w = t THEN 0 ELSE @.w, r |-> @.r \ {t}]]
    /\ Advance(t)
    /\ UNCHANGED <<store_data, filenames_list>>
    /\ LocksUnchanged

InitLocks ==
    /\ pc = "shared"
    /\ signals = <<>>
    /\ archive = Zip(OneDb, Media("absent", EmptyMap), EmptyMap)
    /\ database = [decks |-> Table("absent", <<>>), col_decks |-> Column("none", <<>>),
                   cards |-> Table("rows", <<>>)]
    /\ db_data = <<>>
    /\ temp_file = "absent"
    /\ result = "none"
    /\ format = "none"
    /\ decks = <<>>
    /\ parsed_count = 0
    /\ cards_by_deck = EmptyMap
    /\ collection = NoCollection
    /\ mapping = EmptyMap
    /\ remaining = {}
    /\ current = 0
    /\ store_data = EmptyMap
    /\ filenames_list = <<>>
    /\ progress = <<>>
    /\ log = {}
    /\ locks \in {[FreeLocks EXCEPT !.writer_first = b] : b \in BOOLEAN}
    /\ threads = [t \in Threads |-> IdleThread]
    /\ input = <<>>
    /\ output = <<>>
    /\ temp_dir = NoFiles
    /\ readers = NoReaders

ThreadStep(t) == Acquire(t) \/ RunBody(t) \/ DropGuard(t)

NextLocks ==
    \/ \E t \in Threads : Start(t)
    \/ \E t \in Threads : Acquire(t)
    \/ \E t \in Threads : RunBody(t)
    \/ \E t \in Threads : DropGuard(t)

\* fair scheduling: a thread that can step again and again does step
SpecLocks ==
    InitLocks /\ [][NextLocks]_vars /\ \A t \in Threads : SF_vars(ThreadStep(t))

(***************************************************************************)
(* A host reading the store while process_media inserts: thread 1 is the   *)
(* run, which calls insert on the filename held in input; the other        *)
(* threads call filenames, data_for and count.                             *)
(***************************************************************************)

TheRun == 1

\* the run calls store.insert(filename, data)
StartInsert ==
    /\ pc = "shared"
    /\ ~Running(TheRun)
    /\ \E f \in StoreNames : input' = f
    /\ threads' = [threads EXCEPT ![TheRun] = [op |-> "insert_steps", at |-> 1]]
    /\ UNCHANGED <<pc, signals, result, archive, format, db_data, database, decks,
                   parsed_count, cards_by_deck, collection, mapping, remaining, current,
                   progress, log, temp_file, output, temp_dir, readers, locks, store_data,
                   filenames_list>>

\* a host thread calls one of the reading operations
StartRead(t) ==
    /\ pc = "shared"
    /\ t # TheRun
    /\ ~Running(t)
    /\ \E op \in {"filenames", "data_for", "count"} :
          threads' = [threads EXCEPT ![t] = [op |-> op, at |-> 1]]
    /\ UNCHANGED <<locks, store_data, filenames_list>>
    /\ LocksUnchanged

\* if !store.contains_key(&filename) { filenames.push(filename.clone()) }
InsertPush(t) ==
    /\ pc = "shared"
    /\ Running(t)
    /\ Instr(t).a = "push"
    /\ filenames_list' = IF input \notin DOMAIN store_data
                         THEN Append(filenames_list, input)
                         ELSE filenames_list
    /\ Advance(t)
    /\ UNCHANGED <<locks, store_data>>
    /\ LocksUnchanged

\* store.insert(filename, data)
InsertPut(t) ==
    /\ pc = "shared"
    /\ Running(t)
    /\ Instr(t).a = "put"
    /\ store_data' = (input :> Id3Audio) @@ store_data
    /\ Advance(t)
    /\ UNCHANGED <<locks, filenames_list>>
    /\ LocksUnchanged

InitReaders == InitLocks

NextReaders ==
    \/ StartInsert
    \/ \E t \in Threads : StartRead(t)
    \/ \E t \in Threads : Acquire(t)
    \/ \E t \in Threads : InsertPush(t)
    \/ \E t \in Threads : InsertPut(t)
    \/ \E t \in Threads : RunBody(t)
    \/ \E t \in Threads : DropGuard(t)

SpecReaders == InitReaders /\ [][NextReaders]_vars

(***************************************************************************)
(* Functions called on their own                                           *)
(***************************************************************************)

CallUnchanged ==
    UNCHANGED <<signals, result, archive, format, db_data, database, decks,
                parsed_count, cards_by_deck, collection, mapping, remaining, current,
                store_data, filenames_list, progress, log, temp_file, locks, threads,
                input, temp_dir, readers>>

\* everything but pc and input, before a call
NoRun ==
    /\ signals = <<>>
    /\ archive = Zip(OneDb, Media("absent", EmptyMap), EmptyMap)
    /\ database = [decks |-> Table("absent", <<>>), col_decks |-> Column("none", <<>>),
                   cards |-> Table("rows", <<>>)]
    /\ db_data = <<>>
    /\ temp_file = "absent"
    /\ result = "none"
    /\ format = "none"
    /\ decks = <<>>
    /\ parsed_count = 0
    /\ cards_by_deck = EmptyMap
    /\ collection = NoCollection
    /\ mapping = EmptyMap
    /\ remaining = {}
    /\ current = 0
    /\ store_data = EmptyMap
    /\ filenames_list = <<>>
    /\ progress = <<>>
    /\ log = {}
    /\ locks = FreeLocks
    /\ threads = NoThreads
    /\ output = <<>>
    /\ temp_dir = NoFiles
    /\ readers = NoReaders

MaxPayload == 6

\* the bytes of the magic number and one more
PayloadBytes == {40, 181, 47, 253, 1}

RECURSIVE SeqsUpTo(_, _)
SeqsUpTo(S, n) ==
    IF n = 0 THEN {<<>>}
    ELSE LET shorter == SeqsUpTo(S, n - 1)
         IN shorter \cup {Append(q, x) : q \in {y \in shorter : Len(y) = n - 1}, x \in S}

\* decompress_zstd called on a payload
Decompress ==
    /\ pc = "sniff"
    /\ output' = archive_decompress_zstd(input)
    /\ pc' = "sniffed"
    /\ CallUnchanged

InitSniff ==
    /\ pc = "sniff"
    /\ input \in SeqsUpTo(PayloadBytes, MaxPayload)
    /\ NoRun

NextSniff == Decompress

SpecSniff == InitSniff /\ [][NextSniff]_vars

(***************************************************************************)
(* database.rs: extract_media_references.  A field is modelled as the      *)
(* sequence of its pieces in text order: plain text, a sound reference     *)
(* [sound:n] or an image tag <img src="n">; captures_iter yields the       *)
(* pieces its pattern matches, in text order.                              *)
(***************************************************************************)

Piece(k, n) == [k |-> k, n |-> n]

\* capture group 1 of every match of the pattern of kind k, in text order
Captures(field, k) ==
    LET Matches(p) == p.k = k
        found == SelectSeq(field, Matches)
    IN [i \in 1..Len(found) |-> found[i].n]

\* one left-to-right scan of each field, for both patterns at once
RECURSIVE extract_media_references_text_order(_)
extract_media_references_text_order(fields) ==
    IF Len(fields) = 0 THEN <<>>
    ELSE LET field == fields[Len(fields)]
             IsRef(p) == p.k # "text"
             found == SelectSeq(field, IsRef)
         IN extract_media_references_text_order(SubSeq(fields, 1, Len(fields) - 1))
                \o [i \in 1..Len(found) |-> found[i].n]

\* one scan of all fields for a pattern
RECURSIVE ScanAll(_, _)
ScanAll(fields, k) ==
    IF Len(fields) = 0 THEN <<>>
    ELSE ScanAll(SubSeq(fields, 1, Len(fields) - 1), k) \o Captures(fields[Len(fields)], k)

\* two scans of the whole field set: all sound references, then all image references
extract_media_references_two_scans(fields) ==
    ScanAll(fields, "sound") \o ScanAll(fields, "img")

\* the for loop over the fields: the sound matches of the field, then its image matches
RECURSIVE extract_media_references(_)
extract_media_references(fields) ==
    IF Len(fields) = 0 THEN <<>>
    ELSE LET field == fields[Len(fields)]
         IN extract_media_references(SubSeq(fields, 1, Len(fields) - 1))
                \o Captures(field, "sound") \o Captures(field, "img")

MaxFields == 2

\* plain text, [sound:a], [sound:b], <img src="a">, <img src="c">
Pieces ==
    {Piece("text", ""), Piece("sound", "a"), Piece("sound", "b"),
     Piece("img", "a"), Piece("img", "c")}

\* the fields of a note: up to two pieces each
FieldTexts == SeqsUpTo(Pieces, 2)

ExtractReferences ==
    /\ pc = "fields"
    /\ output' = extract_media_references(input)
    /\ pc' = "references"
    /\ CallUnchanged

InitRefs ==
    /\ pc = "fields"
    /\ input \in SeqsUpTo(FieldTexts, MaxFields)
    /\ NoRun

NextRefs == ExtractReferences

SpecRefs == InitRefs /\ [][NextRefs]_vars

(***************************************************************************)
(* html.rs: clean_html.  Text is the sequence of its code points; a        *)
(* regular expression is modelled by the length of its match at a position *)
(* (0 when it does not match there) and replace_all by a left-to-right     *)
(* scan over non-overlapping matches.                                      *)
(***************************************************************************)

\* the literal lit stands at position i of t
LitAt(t, i, lit) == i >= 1 /\ i + Len(lit) - 1 <= Len(t) /\ SubSeq(t, i, i + Len(lit) - 1) = lit

\* position of the first c at or after i, 0 when there is none
FirstFrom(t, i, c) ==
    IF \E j \in i..Len(t) : t[j] = c
    THEN CHOOSE j \in i..Len(t) : t[j] = c /\ \A k \in i..(j - 1) : t[k] # c
    ELSE 0

\* \s and char::is_whitespace
IsWhitespace(c) ==
    c \in {9, 10, 11, 12, 13, 32, 133, 160, 5760, 8232, 8233, 8239, 8287, 12288}
        \cup (8192..8202)

\* first position at or after i that holds no character of the class
SkipClass(t, i, class) ==
    LET others == {j \in i..Len(t) : t[j] \notin class}
    IN IF others = {} THEN Len(t) + 1 ELSE CHOOSE j \in others : \A k \in others : j <= k

WhitespaceIn(t) == {t[i] : i \in {j \in DOMAIN t : IsWhitespace(t[j])}}

DecimalDigits == 48..57

HexDigits == (48..57) \cup (65..70) \cup (97..102)

\* [^"'\s>]
ImgNameChars(t) == {t[i] : i \in {j \in DOMAIN t : t[j] \notin {34, 39, 62} /\ ~IsWhitespace(t[j])}}

\* <img[^>]+src=["']?([^"'\s>]+)["']?[^>]*> at i: where "src=" stands for the
\* greedy [^>]+, 0 when the pattern does not match at i
ImgSrcAt(t, i) ==
    IF ~LitAt(t, i, <<60, 105, 109, 103>>) THEN 0
    ELSE LET e == FirstFrom(t, i + 4, 62)
             NameStart(k) == IF t[k + 4] \in {34, 39} THEN k + 5 ELSE k + 4
             Fits(k) == /\ LitAt(t, k, <<115, 114, 99, 61>>)
                        /\ k + 4 < e
                        /\ NameStart(k) < e
                        /\ t[NameStart(k)] \in ImgNameChars(t)
             ks == {k \in (i + 5)..(e - 5) : Fits(k)}
         IN IF e = 0 \/ ks = {} THEN 0 ELSE CHOOSE k \in ks : \A m \in ks : m <= k

\* capture group 1 of the image pattern matching at i
ImgName(t, i) ==
    LET k == ImgSrcAt(t, i)
        s == IF t[k + 4] \in {34, 39} THEN k + 5 ELSE k + 4
    IN SubSeq(t, s, SkipClass(t, s, ImgNameChars(t)) - 1)

\* the tag names of </?(?:b|i|u|strong|em|font|a)[^>]*>
FormatNames ==
    {<<98>>, <<105>>, <<117>>, <<115, 116, 114, 111, 110, 103>>, <<101, 109>>, <<102, 111, 110, 116>>, <<97>>}

\* length of the match of the pattern at position i of t, 0 when there is none
MatchLen(pat, t, i) ==
    LET ToGt(from) == LET e == FirstFrom(t, from, 62) IN IF e = 0 THEN 0 ELSE e - i + 1
        slash == IF LitAt(t, i + 1, <<47>>) THEN 1 ELSE 0
    IN CASE pat = "sound" ->      \* \[sound:([^\]]+)\]
              IF LitAt(t, i, <<91, 115, 111, 117, 110, 100, 58>>)
              THEN LET e == FirstFrom(t, i + 7, 93)
                   IN IF e >= i + 8 THEN e - i + 1 ELSE 0
              ELSE 0
         [] pat = "img" ->
              IF ImgSrcAt(t, i) = 0 THEN 0 ELSE ToGt(i + 4)
         [] pat = "br" ->         \* <br\s*/?>
              IF LitAt(t, i, <<60, 98, 114>>)
              THEN LET j == SkipClass(t, i + 3, WhitespaceIn(t))
                       k == IF LitAt(t, j, <<47>>) THEN j + 1 ELSE j
                   IN IF LitAt(t, k, <<62>>) THEN k - i + 1 ELSE 0
              ELSE 0
         [] pat = "div_open" ->   \* <div[^>]*>
              IF LitAt(t, i, <<60, 100, 105, 118>>) THEN ToGt(i + 4) ELSE 0
         [] pat = "div_close" ->  \* </div>
              IF LitAt(t, i, <<60, 47, 100, 105, 118, 62>>) THEN 6 ELSE 0
         [] pat = "p_open" ->     \* <p[^>]*>
              IF LitAt(t, i, <<60, 112>>) THEN ToGt(i + 2) ELSE 0
         [] pat = "p_close" ->    \* </p>
              IF LitAt(t, i, <<60, 47, 112, 62>>) THEN 4 ELSE 0
         [] pat = "span" ->       \* </?span[^>]*>
              IF LitAt(t, i, <<60>>) /\ LitAt(t, i + 1 + slash, <<115, 112, 97, 110>>)
              THEN ToGt(i + 5 + slash) ELSE 0
         [] pat = "format" ->     \* </?(?:b|i|u|strong|em|font|a)[^>]*>
              IF LitAt(t, i, <<60>>) /\ \E n \in FormatNames : LitAt(t, i + 1 + slash, n)
              THEN ToGt(i + 2 + slash) ELSE 0
         [] pat = "tag" ->        \* <[^>]+>
              IF LitAt(t, i, <<60>>)
              THEN LET e == FirstFrom(t, i + 1, 62)
                   IN IF e >= i + 2 THEN e - i + 1 ELSE 0
              ELSE 0
         [] pat = "decimal" ->    \* &#(\d+);
              IF LitAt(t, i, <<38, 35>>)
              THEN LET j == SkipClass(t, i + 2, DecimalDigits)
                   IN IF j > i + 2 /\ LitAt(t, j, <<59>>) THEN j - i + 1 ELSE 0
              ELSE 0
         [] pat = "hex" ->        \* &#[xX]([0-9a-fA-F]+);
              IF LitAt(t, i, <<38, 35>>) /\ (LitAt(t, i + 2, <<120>>) \/ LitAt(t, i + 2, <<88>>))
              THEN LET j == SkipClass(t, i + 3, HexDigits)
                   IN IF j > i + 3 /\ LitAt(t, j, <<59>>) THEN j - i + 1 ELSE 0
              ELSE 0
         [] pat = "newlines" ->   \* \n{3,}
              LET j == SkipClass(t, i, {10})
              IN IF j - i >= 3 THEN j - i ELSE 0

\* digits without their leading zeros
StripZeros(d) == SubSeq(d, SkipClass(d, 1, {48}), Len(d))

HexValue(c) == IF c <= 57 THEN c - 48 ELSE IF c <= 70 THEN c - 55 ELSE c - 87

RECURSIVE HexDigitsValue(_)
HexDigitsValue(d) ==
    IF Len(d) = 0 THEN 0
    ELSE 16 * HexDigitsValue(SubSeq(d, 1, Len(d) - 1)) + HexValue(d[Len(d)])

\* char::from_u32(code).map(|c| c.to_string()).unwrap_or_default()
FromU32(code) ==
    IF code <= 1114111 /\ ~(code >= 55296 /\ code <= 57343) THEN <<code>> ELSE <<>>

\* "4294967295", the largest u32
U32Max == <<52, 50, 57, 52, 57, 54, 55, 50, 57, 53>>

\* caps[1].parse::<u32>().unwrap_or(0), then char::from_u32
DecimalChar(digits) ==
    LET d == StripZeros(digits)
    IN IF Len(d) <= 9 THEN FromU32(DigitsValue(d))
       ELSE IF Len(d) = 10 /\ ~StrLess(U32Max, d) THEN <<>>
       ELSE <<0>>

\* u32::from_str_radix(&caps[1], 16).unwrap_or(0), then char::from_u32
HexChar(digits) ==
    LET d == StripZeros(digits)
    IN IF Len(d) <= 6 THEN FromU32(HexDigitsValue(d))
       ELSE IF Len(d) <= 8 THEN <<>>
       ELSE <<0>>

\* what replace_all puts for the match of length n at position i
Replacement(pat, t, i, n) ==
    CASE pat = "sound" ->
           LET f == SubSeq(t, i + 7, i + n - 2)
           IN <<91, 128266, 32>> \o f \o <<93, 40, 109, 101, 100, 105, 97, 58>> \o f \o <<41>>
      [] pat = "img" ->
           LET f == ImgName(t, i)
           IN <<33, 91>> \o f \o <<93, 40, 109, 101, 100, 105, 97, 58>> \o f \o <<41>>
      [] pat \in {"br", "div_close", "p_close"} -> <<10>>
      [] pat \in {"div_open", "p_open", "span", "format", "tag"} -> <<>>
      [] pat = "decimal" -> DecimalChar(SubSeq(t, i + 2, i + n - 2))
      [] pat = "hex" -> HexChar(SubSeq(t, i + 3, i + n - 2))
      [] pat = "newlines" -> <<10, 10>>

\* Regex::replace_all: the non-overlapping matches from left to right
RECURSIVE ReplaceFrom(_, _, _)
ReplaceFrom(pat, t, i) ==
    LET at == {m \in i..Len(t) : MatchLen(pat, t, m) > 0}
        j == CHOOSE m \in at : \A k \in at : m <= k
        n == MatchLen(pat, t, j)
    IN IF at = {} THEN SubSeq(t, i, Len(t))
       ELSE SubSeq(t, i, j - 1) \o Replacement(pat, t, j, n) \o ReplaceFrom(pat, t, j + n)

replace_all(pat, t) == ReplaceFrom(pat, t, 1)

\* str::replace(from, to)
RECURSIVE StrReplaceFrom(_, _, _, _)
StrReplaceFrom(t, from, to, i) ==
    LET at == {m \in i..Len(t) : LitAt(t, m, from)}
        j == CHOOSE m \in at : \A k \in at : m <= k
    IN IF at = {} THEN SubSeq(t, i, Len(t))
       ELSE SubSeq(t, i, j - 1) \o to \o StrReplaceFrom(t, from, to, j + Len(from))

\* &nbsp; &amp; &lt; &gt; &quot; &apos; &#39; &mdash; &ndash; &hellip; &copy; &reg; &trade; &laquo; &raquo; &bull; &middot; &times; &divide; &plusmn; &deg; &prime; &Prime;
Entities ==
    << <<<<38, 110, 98, 115, 112, 59>>, <<32>>>>,
       <<<<38, 97, 109, 112, 59>>, <<38>>>>,
       <<<<38, 108, 116, 59>>, <<60>>>>,
       <<<<38, 103, 116, 59>>, <<62>>>>,
       <<<<38, 113, 117, 111, 116, 59>>, <<34>>>>,
       <<<<38, 97, 112, 111, 115, 59>>, <<39>>>>,
       <<<<38, 35, 51, 57, 59>>, <<39>>>>,
       <<<<38, 109, 100, 97, 115, 104, 59>>, <<8212>>>>,
       <<<<38, 110, 100, 97, 115, 104, 59>>, <<8211>>>>,
       <<<<38, 104, 101, 108, 108, 105, 112, 59>>, <<8230>>>>,
       <<<<38, 99, 111, 112, 121, 59>>, <<169>>>>,
       <<<<38, 114, 101, 103, 59>>, <<174>>>>,
       <<<<38, 116, 114, 97, 100, 101, 59>>, <<8482>>>>,
       <<<<38, 108, 97, 113, 117, 111, 59>>, <<171>>>>,
       <<<<38, 114, 97, 113, 117, 111, 59>>, <<187>>>>,
       <<<<38, 98, 117, 108, 108, 59>>, <<8226>>>>,
       <<<<38, 109, 105, 100, 100, 111, 116, 59>>, <<183>>>>,
       <<<<38, 116, 105, 109, 101, 115, 59>>, <<215>>>>,
       <<<<38, 100, 105, 118, 105, 100, 101, 59>>, <<247>>>>,
       <<<<38, 112, 108, 117, 115, 109, 110, 59>>, <<177>>>>,
       <<<<38, 100, 101, 103, 59>>, <<176>>>>,
       <<<<38, 112, 114, 105, 109, 101, 59>>, <<8242>>>>,
       <<<<38, 80, 114, 105, 109, 101, 59>>, <<8243>>>> >>

\* the for loop over the entities: every occurrence of the first, then of the next
RECURSIVE ReplaceEntities(_, _)
ReplaceEntities(t, k) ==
    IF k > Len(Entities) \/ Len(t) = 0 THEN t
    ELSE ReplaceEntities(StrReplaceFrom(t, Entities[k][1], Entities[k][2], 1), k + 1)

decode_html_entities(text) ==
    replace_all("hex", replace_all("decimal", ReplaceEntities(text, 1)))

\* str::trim
Trim(t) ==
    LET kept == {j \in DOMAIN t : ~IsWhitespace(t[j])}
    IN IF kept = {} THEN <<>>
       ELSE SubSeq(t, CHOOSE j \in kept : \A k \in kept : j <= k,
                   CHOOSE j \in kept : \A k \in kept : k <= j)

\* the rewriting passes up to the tag removal, in the order of the code
RECURSIVE ApplyPasses(_, _)
ApplyPasses(t, pats) ==
    IF Len(pats) = 0 \/ Len(t) = 0 THEN t ELSE ApplyPasses(replace_all(pats[1], t), Tail(pats))

TagPasses ==
    <<"sound", "img", "br", "div_open", "div_close", "p_open", "p_close", "span",
      "format", "tag">>

\* whitespace trimmed before the entities are decoded
clean_html_trim_first(html) ==
    replace_all("newlines", decode_html_entities(Trim(ApplyPasses(html, TagPasses))))

clean_html(html) ==
    replace_all("newlines", Trim(decode_html_entities(ApplyPasses(html, TagPasses))))

MaxPieces == 3

\* the pieces texts are made of: '<' '>' 'b' '&' 'lt;' 'amp;' '#10;' '[sound:' ']' '<img src=' ' '
HtmlPieces ==
    { <<60>>,
      <<62>>,
      <<98>>,
      <<38>>,
      <<108, 116, 59>>,
      <<97, 109, 112, 59>>,
      <<35, 49, 48, 59>>,
      <<91, 115, 111, 117, 110, 100, 58>>,
      <<93>>,
      <<60, 105, 109, 103, 32, 115, 114, 99, 61>>,
      <<32>> }

RECURSIVE Concat(_)
Concat(ps) == IF Len(ps) = 0 THEN <<>> ELSE ps[1] \o Concat(Tail(ps))

HtmlTexts == {Concat(ps) : ps \in SeqsUpTo(HtmlPieces, MaxPieces)}

\* clean_html_to_markdown called on a text
Normalize ==
    /\ pc = "html"
    /\ output' = clean_html(input)
    /\ pc' = "normalized"
    /\ CallUnchanged

InitHtml ==
    /\ pc = "html"
    /\ input \in HtmlTexts
    /\ NoRun

NextHtml == Normalize

SpecHtml == InitHtml /\ [][NextHtml]_vars

(***************************************************************************)
(* database.rs: parse_cards with its progress callback.  The tables are    *)
(* given by their row counts: cards whose note is there once, cards whose  *)
(* note is missing, and cards whose note id stands twice in table notes.   *)
(***************************************************************************)

BATCH_SIZE == 1000

MaxBatches == 2

\* SELECT COUNT(*) FROM cards
card_count(db) == db.cards.noted + db.cards.orphaned + db.cards.doubled

\* the number of rows of cards c JOIN notes n ON c.nid = n.id
JoinCount(db) == db.cards.noted + 2 * db.cards.doubled

\* the k-th row of the join, in scan order: (id, nid, did)
JoinRow(db, k) ==
    IF k <= db.cards.noted THEN CardRow(k, 1)
    ELSE CardRow(db.cards.noted + ((k - db.cards.noted + 1) \div 2), 1)

CardsUnchanged ==
    UNCHANGED <<signals, archive, format, db_data, database, decks, parsed_count,
                collection, mapping, remaining, store_data, filenames_list, log,
                temp_file, locks, threads, input, output, temp_dir, readers>>

\* card_count, the prepared statement, current = 0
CardsBegin ==
    /\ pc = "cards"
    /\ IF database.cards.t = "absent"
       THEN Fail("DatabaseError")
       ELSE pc' = "cards_loop" /\ result' = result
    /\ current' = 0
    /\ cards_by_deck' = EmptyMap
    /\ progress' = <<>>
    /\ CardsUnchanged

\* one iteration of the loop over the rows
CardsStep ==
    /\ pc = "cards_loop"
    /\ current < JoinCount(database)
    /\ LET row == JoinRow(database, current + 1)
           before == IF row.did \in DOMAIN cards_by_deck THEN cards_by_deck[row.did]
                     ELSE <<>>
       IN cards_by_deck' =
              [d \in DOMAIN cards_by_deck \cup {row.did} |->
                  IF d = row.did THEN Append(before, CardOf(row)) ELSE cards_by_deck[d]]
    /\ current' = current + 1
    /\ progress' = IF (current + 1) % BATCH_SIZE = 0
                   THEN Append(progress, <<current + 1, card_count(database)>>)
                   ELSE progress
    /\ UNCHANGED <<pc, result>>
    /\ CardsUnchanged

\* after the loop: the final progress update, Ok(cards_by_deck)
CardsEnd ==
    /\ pc = "cards_loop"
    /\ current = JoinCount(database)
    /\ progress' = Append(progress, <<current, card_count(database)>>)
    /\ pc' = "cards_done"
    /\ UNCHANGED <<result, current, cards_by_deck>>
    /\ CardsUnchanged

\* the tables items() is applied to
CardTables ==
    {[t |-> "absent", rows |-> <<>>, noted |-> 0, orphaned |-> 0, doubled |-> 0]}
    \cup
    {[t |-> "counted", rows |-> <<>>, noted |-> n, orphaned |-> o, doubled |-> d] :
        n \in {0, BATCH_SIZE - 1, BATCH_SIZE, MaxBatches * BATCH_SIZE + 1},
        o \in {0, 1}, d \in {0, 1}}

InitCards ==
    /\ pc = "cards"
    /\ signals = <<>>
    /\ archive = Zip(OneDb, Media("absent", EmptyMap), EmptyMap)
    /\ database \in {[decks |-> Table("absent", <<>>), col_decks |-> Column("none", <<>>),
                      cards |-> c] : c \in CardTables}
    /\ db_data = <<>>
    /\ temp_file = "present"
    /\ Idle

NextCards ==
    \/ CardsBegin
    \/ CardsStep
    \/ CardsEnd

SpecCards == InitCards /\ [][NextCards]_vars

(***************************************************************************)
(* Readers alive together: AnkiDatabase::open_from_bytes and Drop, called  *)
(* for several readers by the processes of a host.                         *)
(***************************************************************************)

\* the record-store bytes handed to open_from_bytes
ReaderInputs ==
    {DbBytes(n) : n \in {"collection.anki2", "collection.anki21", "collection.anki21b"}}

ReadersUnchanged ==
    UNCHANGED <<pc, signals, result, archive, format, db_data, database, decks,
                parsed_count, cards_by_deck, collection, mapping, remaining, current,
                store_data, filenames_list, progress, log, temp_file, locks, threads,
                input, output>>

\* AnkiDatabase::open_from_bytes called in process pid: fs::write replaces what
\* is at the path, and Self is built only when the connection opens
OpenReader(r, pid) ==
    /\ pc = "readers"
    /\ ~readers[r].alive
    /\ \E data \in ReaderInputs, outcome \in {"ok", "IoError", "DatabaseError"} :
          /\ temp_dir' = IF outcome = "IoError" THEN temp_dir
                         ELSE [temp_dir EXCEPT ![TempPath(pid)] = Some(data)]
          /\ readers' = IF outcome = "ok"
                        THEN [readers EXCEPT ![r] = [alive |-> TRUE, path |-> TempPath(pid),
                                                     data |-> data]]
                        ELSE readers
    /\ ReadersUnchanged

\* Drop for AnkiDatabase: remove_file(_temp_path), its result ignored
DropReader(r) ==
    /\ pc = "readers"
    /\ readers[r].alive
    /\ temp_dir' = [temp_dir EXCEPT ![readers[r].path] = None]
    /\ readers' = [readers EXCEPT ![r] = NoReader]
    /\ ReadersUnchanged

InitTwoReaders ==
    /\ pc = "readers"
    /\ input = <<>>
    /\ NoRun

NextTwoReaders ==
    \/ \E r \in 1..MaxReaders, pid \in ProcessIds : OpenReader(r, pid)
    \/ \E r \in 1..MaxReaders : DropReader(r)

SpecTwoReaders == InitTwoReaders /\ [][NextTwoReaders]_vars

(***************************************************************************)
(* extract_name_from_protobuf, one iteration of its while loop at a time,  *)
(* over every byte sequence up to a length.                                *)
(***************************************************************************)

MaxRecord == 5

\* tags of the wire types 0, 1, 5, 2, the tag of the name field, a tag of
\* another wire type, and a byte with the MSB set
RecordBytes == {0, 1, 5, 10, 18, 67, 128}

\* one iteration of the while loop entered with i = i0 < data.len(): the indexes
\* of data it reads (0-based), and how it leaves: break, return Some, or on to
\* the next iteration with a new i
ProtoIteration(data, i0) ==
    LET tag == data[i0 + 1]
        i == i0 + 1
    IN IF i >= Len(data) THEN [reads |-> {i0}, k |-> "break"]
       ELSE IF tag = 18
       THEN LET len == data[i + 1]
                j == i + 1
            IN IF j + len <= Len(data)
               THEN IF Utf8Valid(SubSeq(data, j + 1, j + len))
                    THEN [reads |-> {i0, i} \cup (j..(j + len - 1)), k |-> "return",
                          v |-> SubSeq(data, j + 1, j + len)]
                    ELSE [reads |-> {i0, i} \cup (j..(j + len - 1)), k |-> "continue",
                          i |-> j]
               ELSE [reads |-> {i0, i}, k |-> "continue", i |-> j]
       ELSE CASE tag % 8 = 0 ->
                   LET stop == SkipVarint(data, i)
                   IN [reads |-> {i0} \cup {m \in i..stop : m < Len(data)},
                       k |-> "continue", i |-> stop + 1]
              [] tag % 8 = 1 -> [reads |-> {i0}, k |-> "continue", i |-> i + 8]
              [] tag % 8 = 2 ->
                   [reads |-> {i0, i}, k |-> "continue", i |-> i + 1 + data[i + 1]]
              [] tag % 8 = 5 -> [reads |-> {i0}, k |-> "continue", i |-> i + 4]
              [] OTHER -> [reads |-> {i0}, k |-> "continue", i |-> i + 1]

\* the loop test and one iteration; an index outside the slice panics
ProtoStep ==
    /\ pc = "proto"
    /\ IF current >= Len(input)
       THEN pc' = "proto_done" /\ output' = None /\ current' = current
       ELSE LET it == ProtoIteration(input, current)
            IN IF ~(it.reads \subseteq 0..(Len(input) - 1))
               THEN pc' = "panicked" /\ output' = output /\ current' = current
               ELSE CASE it.k = "break" ->
                           pc' = "proto_done" /\ output' = None /\ current' = current
                      [] it.k = "return" ->
                           pc' = "proto_done" /\ output' = Some(it.v) /\ current' = current
                      [] OTHER -> pc' = pc /\ output' = output /\ current' = it.i
    /\ UNCHANGED <<signals, result, archive, format, db_data, database, decks,
                   parsed_count, cards_by_deck, collection, mapping, remaining, store_data,
                   filenames_list, progress, log, temp_file, locks, threads, input,
                   temp_dir, readers>>

InitProto ==
    /\ pc = "proto"
    /\ input \in SeqsUpTo(RecordBytes, MaxRecord)
    /\ NoRun

NextProto == ProtoStep

\* a call that has started runs on: nothing in the function waits
SpecProto == InitProto /\ [][NextProto]_vars /\ WF_vars(NextProto)

(***************************************************************************)
(* Properties                                                              *)
(***************************************************************************)

AllPhases == <<"Extracting", "ReadingDecks", "ReadingCards", "ProcessingMedia", "Complete">>

\* C1 as stated: every ingestion run, whatever its outcome, has signaled the
\* five phases exactly once each, in order, when it ends.
C1_EveryRunSignalsAllPhases == pc \in {"done", "failed"} => signals = AllPhases

\* C1, amended: an ingestion run that returns a collection has signaled the five
\* phases Extracting, ReadingDecks, ReadingCards, ProcessingMedia, Complete
\* exactly once each, in that order.
C1_SuccessfulRunSignalsAllPhases == pc = "done" => signals = AllPhases

C1_Witness == pc = "done" /\ result = "ok" /\ Len(signals) = 5

\* the deck ids that key cards and that no parsed deck carries
OrphanIds == {did \in DOMAIN cards_by_deck : \A i \in 1..parsed_count : decks[i].id # did}

DecksWithId(ds, id) == {i \in DOMAIN ds : ds[i].id = id}

\* C2: after a successful ingestion, every deck id that keys cards and is
\* absent from the parsed decks has exactly one deck in the collection, a
\* placeholder named "Deck <id>" that comes after the parsed decks, and the deck
\* id of every card is the id of a deck of the collection.
C2_OrphansGetOnePlaceholder ==
    pc = "done" =>
        /\ Len(collection.decks) = parsed_count + Cardinality(OrphanIds)
        /\ \A did \in OrphanIds :
              /\ Cardinality(DecksWithId(collection.decks, did)) = 1
              /\ \A i \in DecksWithId(collection.decks, did) :
                    /\ i > parsed_count
                    /\ collection.decks[i].name = DeckPrefix \o I64ToString(did)
        /\ \A k \in DOMAIN collection.cards_by_deck :
              \A n \in DOMAIN collection.cards_by_deck[k] :
                 /\ I64ToString(collection.cards_by_deck[k][n].deck_id) = k
                 /\ DecksWithId(collection.decks, collection.cards_by_deck[k][n].deck_id) # {}

C2_Witness ==
    /\ pc = "done"
    /\ Cardinality(OrphanIds) = 2
    /\ parsed_count > 0
    /\ DOMAIN cards_by_deck \ OrphanIds # {}

\* the format of the most preferred record-store name the container holds
PreferredFormat(names) ==
    IF "collection.anki21b" \in names THEN "Compressed"
    ELSE IF "collection.anki21" \in names THEN "Modern"
    ELSE IF "collection.anki2" \in names THEN "Legacy"
    ELSE "none"

\* C3: once a container is opened its format is that of the first present name
\* in the order compressed, modern, legacy; the record store extracted is the
\* entry of that format's name (its frame content under the compressed format);
\* and opening a container with none of the three names fails with InvalidArchive.
C3_FormatIsFirstPresentName ==
    (archive.state = "zip" /\ pc # "start") =>
        /\ format = PreferredFormat(DOMAIN archive.db)
        /\ format = "none" <=> (pc = "failed" /\ result = "InvalidArchive" /\ Len(signals) = 1)
        /\ db_data # <<>> =>
              LET entry == archive.db[db_filename(PreferredFormat(DOMAIN archive.db))]
              IN \/ db_data = entry
                 \/ format = "Compressed" /\ entry = Frame(db_data)

C3_Witness ==
    /\ pc = "extracted"
    /\ Cardinality(DOMAIN archive.db) = 3
    /\ archive.db["collection.anki21b"] = Frame(db_data)

\* the filename has an extension, and it is a known audio or image extension
KnownExtension(filename) ==
    /\ HasDot(filename)
    /\ ToLower(AfterLastDot(filename)) \in AUDIO_EXTENSIONS \cup IMAGE_EXTENSIONS

\* the indexed assets whose entry starts with the magic number and is no frame
BrokenAssets ==
    {k \in DOMAIN mapping :
        /\ KnownExtension(mapping[k])
        /\ k \in DOMAIN archive.files
        /\ HasMagic(archive.files[k])
        /\ ~zstd_decode_all(archive.files[k]).ok}

\* C4 as stated: an asset whose entry starts with the magic number and is no
\* valid frame never makes process_media fail; once the store is returned the
\* asset has been logged and skipped and every entry of the index was processed.
C4_BrokenAssetIsSkipped ==
    (pc \in {"media_loop", "media_done", "failed"} /\ BrokenAssets # {}) =>
        /\ pc # "failed"
        /\ pc = "media_done" =>
              /\ \A k \in BrokenAssets : <<"decompress", mapping[k]>> \in log
              /\ current = Cardinality(DOMAIN mapping)

\* C5 as stated: a legacy deck JSON that cannot be parsed never makes
\* categories() fail, so no run ends with the JSON error.
C5_MalformedLegacyJsonIsNoFailure ==
    database.col_decks.t = "malformed" => result # "JsonError"

DegenerateIndex == archive.media.t \in {"absent", "empty", "blank", "garbage", "not_flat"}

\* C6: when the asset-index entry is absent, empty, blank or no flat JSON object
\* of strings, the mapping extracted is empty and process_media does not fail:
\* the run goes on to return a collection whose media store is empty.
C6_DegenerateIndexMeansNoMedia ==
    (DegenerateIndex /\ Len(signals) >= 4) =>
        /\ mapping = EmptyMap
        /\ pc \in {"media_done", "done"}
        /\ store_data = EmptyMap /\ filenames_list = <<>>
        /\ pc = "done" => (result = "ok" /\ collection.media = EmptyStore)

C6_Witness == pc = "done" /\ archive.media.t = "garbage" /\ DOMAIN archive.files # {}

\* the bytes extract_media gives for the entry of index key k
Extracted(k) == extract_media(archive, k)

\* the index entries with a known extension whose archive entry exists and extracts
Eligible(k) ==
    /\ KnownExtension(mapping[k])
    /\ k \in DOMAIN archive.files
    /\ Extracted(k).ok

\* C7 as stated: after processing, every index entry with a known extension
\* whose archive entry exists and extracts is in the store with exactly its
\* extracted bytes.
C7_EveryExtractedAssetIsStored ==
    pc = "media_done" =>
        \A k \in DOMAIN mapping :
            Eligible(k) => /\ mapping[k] \in DOMAIN store_data
                           /\ store_data[mapping[k]] = Extracted(k).v.v

\* extracted bytes that process_media can store: no magic number left, or a frame
Storable(k) == ~HasMagic(Extracted(k).v.v) \/ zstd_decode_all(Extracted(k).v.v).ok

FullyDecoded(k) ==
    IF HasMagic(Extracted(k).v.v) THEN zstd_decode_all(Extracted(k).v.v).v ELSE Extracted(k).v.v

\* C7, amended: after process_media returns a store, every index entry with a
\* known extension whose archive entry exists, extracts and, if the extracted
\* bytes still start with the magic number, decodes, has its filename listed in
\* the store with the decoded bytes of such an entry of that filename, whether
\* or not the bytes pass the signature check.
C7_SignatureNeverFilters ==
    pc = "media_done" =>
        \A k \in DOMAIN mapping :
            (Eligible(k) /\ Storable(k)) =>
                /\ mapping[k] \in DOMAIN store_data
                /\ \E i \in DOMAIN filenames_list : filenames_list[i] = mapping[k]
                /\ \E k2 \in DOMAIN mapping :
                      /\ mapping[k2] = mapping[k]
                      /\ Eligible(k2) /\ Storable(k2)
                      /\ store_data[mapping[k]] = FullyDecoded(k2)

C7_Witness ==
    /\ pc = "media_done"
    /\ \E k \in DOMAIN mapping :
          /\ Eligible(k) /\ Storable(k)
          /\ <<"invalid", mapping[k]>> \in log
          /\ store_data[mapping[k]] = FullyDecoded(k)
          /\ ~is_valid_audio(FullyDecoded(k)) /\ ~is_valid_image(FullyDecoded(k))

\* C8 as stated: the media type is Unknown exactly for the filenames whose
\* extension is in neither set, compared without case, and the store never
\* holds a filename whose extension is outside both sets.
C8_StoreHoldsKnownExtensionsOnly ==
    /\ \A k \in DOMAIN mapping :
          media_type_from_extension(mapping[k]) = "Unknown" <=> ~KnownExtension(mapping[k])
    /\ \A f \in DOMAIN store_data : KnownExtension(f)

\* x is a proper "::"-path prefix of y
IsAncestor(x, y) ==
    /\ Len(y) >= Len(x) + 2
    /\ SubSeq(y, 1, Len(x)) = x
    /\ SepAt(y, Len(x) + 1)

\* C9: the decks categories() returns, under either layout, are in
\* non-decreasing depth with equal depths in lexicographic order of the full
\* name, and a deck comes after every deck that is its ancestor.
C9_DecksSortedByDepthThenName ==
    pc = "decks_parsed" =>
        /\ \A i, j \in DOMAIN decks :
              i < j => /\ Depth(decks[i].name) <= Depth(decks[j].name)
                       /\ Depth(decks[i].name) = Depth(decks[j].name) =>
                             ~StrLess(decks[j].name, decks[i].name)
        /\ \A i, j \in DOMAIN decks :
              IsAncestor(decks[i].name, decks[j].name) => i < j

\* the names of the JSON members that have one, in iteration order
MemberNames(entries) ==
    LET Named(e) == e.name.t = "str" /\ e.name.b # <<>>
        named == SelectSeq(entries, Named)
    IN [i \in 1..Len(named) |-> named[i].name.b]

C9_Witness ==
    /\ pc = "decks_parsed"
    /\ database.col_decks.t = "object"
    /\ Len(decks) = 3
    /\ IsAncestor(decks[1].name, decks[2].name)
    /\ Depth(decks[2].name) = Depth(decks[3].name)
    /\ StrLess(decks[2].name, decks[3].name)
    /\ MemberNames(database.col_decks.entries) = <<decks[3].name, decks[2].name, decks[1].name>>

IsSuffix(x, y) == Len(x) <= Len(y) /\ SubSeq(y, Len(y) - Len(x) + 1, Len(y)) = x

\* C10 as stated: every deck of a run, parsed or placeholder, has a short name
\* that is a non-empty suffix of its name, the text after the last "::", and the
\* deck is a root exactly when its name holds no "::".
C10_ShortNameIsNonEmptySuffix ==
    \A i \in DOMAIN decks :
        /\ decks[i].short_name # <<>>
        /\ IsSuffix(decks[i].short_name, decks[i].name)
        /\ ~ContainsSep(decks[i].short_name)
        /\ ContainsSep(decks[i].name) =>
              SepAt(decks[i].name, Len(decks[i].name) - Len(decks[i].short_name) - 1)
        /\ is_root(decks[i]) <=> decks[i].short_name = decks[i].name

\* C11 as stated: no deck categories() returns, under the modern or the legacy
\* layout, has the id 0.
C11_NoDeckHasIdZero ==
    pc = "decks_parsed" => \A i \in DOMAIN decks : decks[i].id # 0

ListedNames == {filenames_list[i] : i \in DOMAIN filenames_list}

\* C12 as stated: after any sequence of insert and add_filename, filenames()
\* lists every filename of the store exactly once, and every operation either
\* leaves the enumeration (and so count()) as it is or appends a filename that
\* was not listed, so that the order is that of first addition.
C12_FilenamesListedOnce ==
    /\ [](/\ \A i, j \in DOMAIN filenames_list :
                filenames_list[i] = filenames_list[j] => i = j
          /\ DOMAIN store_data \subseteq ListedNames)
    /\ [][\/ store_filenames(TheStore)' = store_filenames(TheStore)
          \/ \E f \in StoreNames :
                /\ f \notin ListedNames
                /\ filenames_list' = Append(filenames_list, f)]_vars

\* C13 as stated: once data_for(f) returns bytes for a filename f, every later
\* data_for(f) returns the same bytes: no step of process_media, whatever the
\* index, changes or removes the bytes the store holds for a filename.
C13_WriteOncePerKey ==
    [][\A f \in DOMAIN store_data :
          store_data_for(TheStore, f)' = store_data_for(TheStore, f)]_vars

\* C14 as stated: with host threads using one store concurrently under fair
\* scheduling, every operation a thread has started (insert, add_filename,
\* filenames, data_for, count) completes.
C14_EveryOperationCompletes ==
    \A t \in Threads : Running(t) ~> ~Running(t)

\* thread t can take its next step
CanStep(t) ==
    /\ Running(t)
    /\ Instr(t).a \in {"read", "write"} => CanAcquire(Instr(t).a, Instr(t).l)

\* the threads that wait for a lock another thread of the set holds
WaitsFor(t, u) ==
    /\ Running(t) /\ Instr(t).a \in {"read", "write"}
    /\ u # t
    /\ \/ locks[Instr(t).l].w = u
       \/ Instr(t).a = "write" /\ u \in locks[Instr(t).l].r

\* C14, amended: concurrent use of one store never deadlocks: a lock is held by
\* its writer alone or by readers alone, no two threads wait for a lock the
\* other holds, and whenever operations are in flight one of them can take its
\* next step, so that every started operation completes once the threads stop
\* starting new ones.
C14_NeverDeadlocks ==
    /\ \A l \in {"data", "filenames_list"} : locks[l].w # 0 => locks[l].r = {}
    /\ \A t, u \in Threads : ~(WaitsFor(t, u) /\ WaitsFor(u, t))
    /\ (\E t \in Threads : Running(t)) => \E t \in Threads : CanStep(t)

\* insert holds the content lock and waits for the filename-list lock, which a
\* reader holds, while another thread has been through add_filename
C14_Witness ==
    /\ pc = "shared"
    /\ \E t \in Threads :
          /\ threads[t].op = "insert"
          /\ locks.data.w = t
          /\ Instr(t) = Acq("write", "filenames_list")
          /\ locks.filenames_list.r # {}
    /\ filenames_list # <<>>
    /\ store_data = EmptyMap

\* the payload starts with the four bytes 28 B5 2F FD
StartsWithMagic(p) ==
    Len(p) >= 4 /\ p[1] = 40 /\ p[2] = 181 /\ p[3] = 47 /\ p[4] = 253

\* C15: the decompression step treats a payload as compressed exactly when its
\* first four bytes are 28 B5 2F FD: such a payload gives the content of its
\* frame or fails with DecompressionError, and every other payload, one
\* shorter than four bytes included, is returned unchanged; is_zstd_compressed
\* tells the same payloads apart.
C15_CompressedIffMagicPrefix ==
    pc = "sniffed" =>
        /\ is_zstd_compressed(input) <=> StartsWithMagic(input)
        /\ ~StartsWithMagic(input) => output = Ok(input)
        /\ StartsWithMagic(input) =>
              IF output.ok THEN Frame(output.v) = input
              ELSE output.e = "DecompressionError"

C15_Witness ==
    /\ pc = "sniffed"
    /\ StartsWithMagic(input)
    /\ output.ok /\ Len(output.v) = 1

\* the references of field a: its sound references, then its image references
FieldRefs(a) == Captures(input[a], "sound") \o Captures(input[a], "img")

\* the number of references of the fields before field a
RECURSIVE RefsBefore(_)
RefsBefore(a) == IF a <= 1 THEN 0 ELSE RefsBefore(a - 1) + Len(FieldRefs(a - 1))

\* C16: the references of an item are, field after field in field order, the
\* sound matches of the field in text order followed by its image matches in
\* text order, every match once: the j-th reference of field a stands at
\* position j after the references of the fields before a.
C16_PerFieldSoundThenImage ==
    pc = "references" =>
        /\ Len(output) = RefsBefore(Len(input) + 1)
        /\ \A a \in DOMAIN input :
              \A j \in DOMAIN FieldRefs(a) : output[RefsBefore(a) + j] = FieldRefs(a)[j]

\* a field whose image tag comes first in the text, then a sound reference
C16_Witness ==
    /\ pc = "references"
    /\ Len(input) = 2
    /\ input[1] = <<Piece("img", "c"), Piece("sound", "b")>>
    /\ input[2] = <<Piece("sound", "a"), Piece("img", "a")>>
    /\ output = <<"b", "c", "a", "a">>

\* C17 as stated: the references are all sound matches of all fields, in field
\* order, followed by all image matches of all fields.
C17_TwoScansOverAllFields ==
    pc = "references" =>
        output = ScanAll(input, "sound") \o ScanAll(input, "img")

\* x stands before y somewhere in the references
Precedes(x, y) == \E i, j \in DOMAIN output : i < j /\ output[i] = x /\ output[j] = y

\* C17, amended: for an item with several fields the references are produced
\* by one pass over the fields, each field scanned for sound references and
\* then for image references: every reference of an earlier field, image
\* references included, precedes every reference of a later field, sound
\* references included, and within a field a sound reference precedes an image
\* reference.
C17_EarlierFieldFirst ==
    pc = "references" =>
        /\ \A a, b \in DOMAIN input :
              a < b =>
                 \A i \in DOMAIN FieldRefs(a), j \in DOMAIN FieldRefs(b) :
                    Precedes(FieldRefs(a)[i], FieldRefs(b)[j])
        /\ \A a \in DOMAIN input :
              \A i \in DOMAIN Captures(input[a], "sound"),
                 j \in DOMAIN Captures(input[a], "img") :
                    Precedes(Captures(input[a], "sound")[i], Captures(input[a], "img")[j])

\* an image reference in the first field, a sound reference in the second
C17_Witness ==
    /\ pc = "references"
    /\ Len(input) = 2
    /\ input[1] = <<Piece("text", ""), Piece("img", "c")>>
    /\ input[2] = <<Piece("sound", "b")>>
    /\ output = <<"c", "b">>

\* the text holds nothing the normalizer rewrites: no tag, no reference
\* shorthand, no named entity, no character reference
MarkupFree(t) ==
    /\ \A i \in DOMAIN t :
          \A pat \in {"sound", "tag", "decimal", "hex"} : MatchLen(pat, t, i) = 0
    /\ \A i \in DOMAIN t : \A k \in DOMAIN Entities : ~LitAt(t, i, Entities[k][1])

C19_TempFileRemovedOnEveryExit ==
    pc \in {"done", "failed"} => temp_file # "present"

\* C20: the path decomposition round-trips for every deck of a run: a deck that
\* is not a root has a parent path, and the parent path, "::" and the short name
\* give back the name; a root has no parent path and its short name is its name.
C20_ParentPathAndLeafGiveName ==
    \A i \in DOMAIN decks :
        IF is_root(decks[i])
        THEN parent_path(decks[i]) = None /\ decks[i].short_name = decks[i].name
        ELSE /\ parent_path(decks[i]).some
             /\ parent_path(decks[i]).v \o <<58, 58>> \o decks[i].short_name = decks[i].name

\* the position a run is at when the work before the k-th phase has succeeded
ReadyFor(k) ==
    CASE k = 1 -> "start"
      [] k = 2 -> "opened"
      [] k = 3 -> "decks_parsed"
      [] k = 4 -> "reconciled"
      [] k = 5 -> "media_done"

\* C21: in every run the phases signaled are a prefix of Extracting,
\* ReadingDecks, ReadingCards, ProcessingMedia, Complete; a phase is signaled
\* only when all the work before it has succeeded, none is signaled after a
\* failure, and Complete is signaled exactly when the run returns a collection.
C21_PhasesArePrefixInOrder ==
    /\ [](/\ Len(signals) <= Len(AllPhases)
          /\ signals = SubSeq(AllPhases, 1, Len(signals))
          /\ (Len(signals) = Len(AllPhases)) <=> (pc = "done" /\ result = "ok")
          /\ pc = "done" =>
                collection = AnkiCollection_new(decks, cards_by_deck,
                                 [data |-> store_data, filenames |-> filenames_list]))
    /\ [][signals' # signals =>
            /\ pc # "failed"
            /\ Len(signals) < Len(AllPhases)
            /\ pc = ReadyFor(Len(signals) + 1)
            /\ signals' = Append(signals, AllPhases[Len(signals) + 1])]_vars
    /\ [][pc = "failed" => signals' = signals]_vars

\* a run that fails while its media is processed, four phases signaled
C21_Witness ==
    /\ pc = "failed"
    /\ signals = SubSeq(AllPhases, 1, 4)

\* what categories() returned: the decks, or the failure
DecksOutcome == IF pc = "failed" THEN Err(result) ELSE Ok(decks)

\* C22: categories() returns the result of the modern layout whenever the table
\* decks exists and yields at least one row, and the result of the legacy
\* layout exactly when the table is absent or yields no row.
C22_ModernWheneverTableHasRows ==
    pc \in {"decks_parsed", "failed"} =>
        IF database.decks.t = "rows" /\ Len(database.decks.rows) >= 1
        THEN DecksOutcome = parse_decks_modern(Reader)
        ELSE DecksOutcome = parse_decks_legacy(Reader)

\* the text of the first field with tag 0x12 of a record in the wire format: a
\* tag byte, then a varint, 8 bytes, a length byte and that many bytes, or 4
\* bytes, by the wire type of the tag; i is a position of data (1-based)
RECURSIVE RecordName(_, _)
RecordName(data, i) ==
    IF i > Len(data) THEN None
    ELSE IF data[i] = 18
    THEN IF i + 1 <= Len(data) /\ i + 1 + data[i + 1] <= Len(data)
         THEN Some(SubSeq(data, i + 2, i + 1 + data[i + 1]))
         ELSE None
    ELSE CASE data[i] % 8 = 0 -> RecordName(data, SkipVarint(data, i) + 2)
           [] data[i] % 8 = 1 -> RecordName(data, i + 9)
           [] data[i] % 8 = 2 ->
                IF i + 1 <= Len(data) THEN RecordName(data, i + 2 + data[i + 1]) ELSE None
           [] data[i] % 8 = 5 -> RecordName(data, i + 5)
           [] OTHER -> None

\* C23: in the modern layout a deck whose name column holds a binary record is
\* named by the text of the record's field with tag 0x12, and is dropped when
\* the record gives no name.
C23_RecordNameIsFieldText ==
    (pc = "decks_parsed" /\ database.decks.t = "rows"
        /\ decks = parse_decks_modern(Reader).v) =>
        \A k \in DOMAIN database.decks.rows :
            LET r == database.decks.rows[k]
                n == RecordName(r.name.b, 1)
                named == {i \in DOMAIN decks : decks[i].id = RowId(r.id)}
            IN (r.name.t = "blob" /\ RowId(r.id) # 0) =>
                  IF n.some /\ n.v # <<>> /\ Utf8Valid(n.v)
                  THEN \E i \in named : decks[i].name = n.v
                  ELSE named = {}

\* C24: a call of parse_cards that processes N rows invokes the progress
\* callback with BATCH_SIZE, 2 * BATCH_SIZE, ... up to the largest multiple not
\* above N, in this order, then once more with N; the total is the count of
\* cards in every call and the processed count never exceeds it.
C24_BatchesThenFinalWithinTotal ==
    /\ \A i \in DOMAIN progress :
          /\ progress[i][2] = card_count(database)
          /\ progress[i][1] <= progress[i][2]
    /\ pc = "cards_done" =>
          /\ Len(progress) = (current \div BATCH_SIZE) + 1
          /\ \A i \in 1..(Len(progress) - 1) : progress[i][1] = i * BATCH_SIZE
          /\ progress[Len(progress)][1] = current
          /\ current = JoinCount(database)

\* C25: process_media over an index of N entries invokes the progress callback
\* whenever the count of processed entries reaches a multiple of 100, whatever
\* happened to the entry, and once at completion with (N, N), for every N, 0
\* included.
C25_ProgressAtHundredsAndCompletion ==
    LET N == Cardinality(DOMAIN mapping)
    IN /\ pc \in {"media_loop", "media_done"} =>
             \A m \in 1..current : m % 100 = 0 => \E i \in DOMAIN progress : progress[i] = <<m, N>>
       /\ pc = "media_done" =>
             /\ Len(progress) >= 1
             /\ progress[Len(progress)] = <<N, N>>

\* thread t runs the body of the operation, its guard held
Reads(t, op) == Running(t) /\ threads[t].op = op /\ Instr(t).a = "body"

\* C26: a host reading the store while the run inserts never observes a
\* half-done insert: a filename filenames() lists has its bytes, the bytes of a
\* filename never go away, so every later data_for returns them, and count()
\* is the length of the list filenames() returns at that instant.
C26_NoHalfDoneInsertObserved ==
    /\ [](\A t \in Threads :
             /\ Reads(t, "filenames") =>
                   \A i \in DOMAIN store_filenames(TheStore) :
                       store_data_for(TheStore, store_filenames(TheStore)[i]).some
             /\ Reads(t, "count") => store_count(TheStore) = Len(store_filenames(TheStore)))
    /\ [][\A f \in DOMAIN store_data : f \in DOMAIN store_data']_vars

\* a host lists the filenames while the run waits for the list lock, one
\* insert done and the next one started
C26_Witness ==
    /\ \E t \in Threads : Reads(t, "filenames")
    /\ filenames_list # <<>>
    /\ Running(TheRun)
    /\ Instr(TheRun) = Acq("write", "filenames_list")
    /\ locks.data.w = TheRun


\* whether an open or a drop of another reader q has just acted while r stays
OtherActed(r) ==
    /\ readers[r].alive
    /\ readers'[r] = readers[r]
    /\ \/ temp_dir' # temp_dir
       \/ \E q \in 1..MaxReaders \ {r} : readers'[q] # readers[q]

\* C27: while a reader is alive, no open and no drop of another reader of the
\* same process or of another one changes the bytes at its path or removes
\* its backing file
C27_ReadersHaveIndependentFiles ==
    [][\A r \in 1..MaxReaders :
          OtherActed(r) => temp_dir'[readers[r].path] = temp_dir[readers[r].path]]_vars


\* the field with tag 0x12 of a record in the wire format, from position i
\* (1-based): absent when the fields end without it, malformed when its length
\* byte is missing or larger than what remains, unreadable when a field before
\* it has a wire type with no length rule or is cut short
RECURSIVE NameField(_, _)
NameField(data, i) ==
    IF i > Len(data) THEN "absent"
    ELSE IF data[i] = 18
    THEN IF i + 1 <= Len(data) /\ i + 1 + data[i + 1] <= Len(data)
         THEN "present" ELSE "malformed"
    ELSE CASE data[i] % 8 = 0 ->
                IF SkipVarint(data, i) < Len(data)
                THEN NameField(data, SkipVarint(data, i) + 2) ELSE "unreadable"
           [] data[i] % 8 = 1 ->
                IF i + 8 <= Len(data) THEN NameField(data, i + 9) ELSE "unreadable"
           [] data[i] % 8 = 2 ->
                IF i + 1 <= Len(data) /\ i + 1 + data[i + 1] <= Len(data)
                THEN NameField(data, i + 2 + data[i + 1]) ELSE "unreadable"
           [] data[i] % 8 = 5 ->
                IF i + 4 <= Len(data) THEN NameField(data, i + 5) ELSE "unreadable"
           [] OTHER -> "unreadable"

\* C28: for every byte sequence extract_name_from_protobuf terminates, reads no
\* index outside the input, and returns a decoded name or no name; it returns
\* no name when the field with tag 0x12 is absent or its length is malformed.
C28_TotalAndNoNameWhenMalformed ==
    /\ [](pc # "panicked")
    /\ <>(pc = "proto_done")
    /\ [](pc = "proto_done" =>
            /\ output = None \/ (output.some /\ Utf8Valid(output.v))
            /\ NameField(input, 1) \in {"absent", "malformed"} => output = None)

====
